---------------------------- MODULE Spec2Model ----------------------------
(***************************************************************************)
(* Model of the SOP orchestrator: definition loading and discovery, the   *)
(* agent cache of the tool generator, and the orchestrator's invoke /     *)
(* stream entry points with their error-mode and logging policy.          *)
(***************************************************************************)
EXTENDS Integers, Sequences, FiniteSets, Bags, TLC

\* ------------------------------------------------------------------ bounds
MaxRequests == 3     \* top-level calls plus capability calls per behaviour
MaxInst == 2         \* agent instances constructed per behaviour

\* ------------------------------------------------------------ value domains
MISSING == "<missing>"       \* a frontmatter key that is absent / undefined
NONSTRING == "<non-string>"  \* a frontmatter value that is not a string
BLANK == "   "               \* a string that is empty after trim()
NULL == "<null>"             \* a frontmatter key whose value is null
PaddedBody == "\n# Steps do it \n"   \* a body with whitespace around it

\* an optional frontmatter value of a non-string type: absent, given with
\* the expected type, or given with another type
Absent == [is |-> "absent", val |-> << >>]
Given(v) == [is |-> "given", val |-> v]
WrongType == [is |-> "other", val |-> << >>]

AgentNames == {"alpha", "beta"}
Tasks == {"t1"}
ErrorMessages == {"boom"}
ErrorModes == {"fail-fast", "continue"}
LogLevels == {"debug", "info", "warn", "error"}
EntryPoints == {"invoke", "stream"}

\* the strings of the model as the pieces that trim() tells apart:
\* whitespace characters and runs of other characters
Whitespace == {" ", "\n", "\t"}

Chars(s) ==
    CASE s = "" -> << >>
      [] s = BLANK -> << " ", " ", " " >>
      [] s = PaddedBody -> << "\n", "# Steps", " ", "do it", " ", "\n" >>
      [] OTHER -> << s >>

RECURSIVE Joined(_)
Joined(pieces) ==
    IF pieces = << >> THEN "" ELSE Head(pieces) \o Joined(Tail(pieces))

RECURSIVE TrimStart(_)
TrimStart(pieces) ==
    IF pieces # << >> /\ Head(pieces) \in Whitespace
    THEN TrimStart(Tail(pieces)) ELSE pieces

RECURSIVE TrimEnd(_)
TrimEnd(pieces) ==
    IF pieces # << >> /\ pieces[Len(pieces)] \in Whitespace
    THEN TrimEnd(SubSeq(pieces, 1, Len(pieces) - 1)) ELSE pieces

TrimLeading(s) == Joined(TrimStart(Chars(s)))

\* String.prototype.trim
Trim(s) == Joined(TrimEnd(TrimStart(Chars(s))))

\* ------------------------------------------------------------------ loader
\* outcome of validateFrontmatter: the offending field, or "" when valid
validateFrontmatterFieldUntrimmed(data) ==
    IF data.name = MISSING \/ data.name = NULL THEN "name"
    ELSE IF data.name = NONSTRING \/ data.name = "" THEN "name"
    ELSE IF data.description = MISSING \/ data.description = NULL
         THEN "description"
    ELSE IF data.description = NONSTRING \/ data.description = ""
         THEN "description"
    ELSE IF data.type # MISSING /\ data.type # "agent"
            /\ data.type # "orchestrator" THEN "type"
    ELSE ""

validateFrontmatterField(data) ==
    IF data.name = MISSING \/ data.name = NULL THEN "name"
    ELSE IF data.name = NONSTRING \/ Trim(data.name) = "" THEN "name"
    ELSE IF data.description = MISSING \/ data.description = NULL
         THEN "description"
    ELSE IF data.description = NONSTRING \/ Trim(data.description) = ""
         THEN "description"
    ELSE IF data.type # MISSING /\ data.type # "agent"
            /\ data.type # "orchestrator" THEN "type"
    ELSE ""

\* the frontmatter returned by validateFrontmatter for valid data: the
\* optional fields are kept when they have the expected type (the model key
\* of the metadata is not among the fields returned)
validateFrontmatter(data) ==
    [name |-> data.name,
     description |-> data.description,
     version |-> IF data.version \in {MISSING, NULL, NONSTRING}
                 THEN MISSING ELSE data.version,
     tools |-> IF data.tools.is = "given" THEN data.tools ELSE Absent,
     inputs |-> IF data.inputs.is = "given" THEN data.inputs ELSE Absent,
     type |-> IF data.type = MISSING THEN "agent" ELSE data.type]

\* ---------------------------------------------------------------- validator
\* JavaScript values handed to a validator or declared as a default
Undefined == [t |-> "undefined", v |-> << >>]
Str(s) == [t |-> "string", v |-> << s >>]
Num(n) == [t |-> "number", v |-> << n >>]
Bool(b) == [t |-> "boolean", v |-> << b >>]
List(q) == [t |-> "list", v |-> q]
NumList(q) == [t |-> "numlist", v |-> q]

\* Map.prototype.set / property assignment on a map from keys to values
MapSet(m, k, v) == [x \in (DOMAIN m) \cup {k} |-> IF x = k THEN v ELSE m[x]]

\* the members of a list
Range(q) == {q[i] : i \in 1..Len(q)}

\* z.string().describe(...) of the task field
TaskSchema ==
    [base |-> "string", values |-> << >>, hasDefault |-> FALSE,
     default |-> Undefined, optional |-> FALSE]

\* the zod type that generateZodSchema builds for one input definition
FieldSchemaEnumAsString(inputDef) ==
    [base |-> CASE inputDef.type = "string" -> "string"
                [] inputDef.type = "number" -> "number"
                [] inputDef.type = "boolean" -> "boolean"
                [] inputDef.type = "enum" -> "string"
                [] inputDef.type = "list" -> "array"
                [] OTHER -> "string",
     values |-> << >>,
     hasDefault |-> inputDef.default # Undefined,
     default |-> inputDef.default,
     optional |-> inputDef.required = "false"]

FieldSchema(inputDef) ==
    [base |-> CASE inputDef.type = "string" -> "string"
                [] inputDef.type = "number" -> "number"
                [] inputDef.type = "boolean" -> "boolean"
                [] inputDef.type = "enum" ->
                     IF Len(inputDef.values) > 0 THEN "enum" ELSE "string"
                [] inputDef.type = "list" -> "array"
                [] OTHER -> "string",
     values |-> IF inputDef.type = "enum" THEN inputDef.values ELSE << >>,
     hasDefault |-> inputDef.default # Undefined,
     default |-> inputDef.default,
     optional |-> inputDef.required = "false"]

\* the loop of generateZodSchema over Object.entries(inputs)
RECURSIVE shapeLoop(_, _, _)
shapeLoop(inputs, i, shape) ==
    IF i > Len(inputs) THEN shape
    ELSE shapeLoop(inputs, i + 1,
                   MapSet(shape, inputs[i].name, FieldSchema(inputs[i])))

\* generateZodSchema(inputs): the shape of the z.object returned (inputs:
\* the entries of the input spec, none when it is undefined)
generateZodSchema(inputs) ==
    shapeLoop(inputs, 1, MapSet([x \in {} |-> TaskSchema], "task",
                                TaskSchema))

\* whether a value passes the innermost zod type of a field
Matches(schema, value) ==
    CASE schema.base = "string" -> value.t = "string"
      [] schema.base = "number" -> value.t = "number"
      [] schema.base = "boolean" -> value.t = "boolean"
      [] schema.base = "enum" ->
           value.t = "string" /\ value.v[1] \in Range(schema.values)
      [] schema.base = "array" -> value.t = "list"

\* parsing one field with zod 3: ZodOptional, the outer wrapper, passes
\* undefined through; ZodDefault replaces undefined by the default and
\* parses that with the inner type
ParseField(schema, value) ==
    IF schema.optional /\ value = Undefined
    THEN [ok |-> TRUE, value |-> Undefined]
    ELSE LET w == IF schema.hasDefault /\ value = Undefined
                  THEN schema.default ELSE value
         IN IF Matches(schema, w) THEN [ok |-> TRUE, value |-> w]
            ELSE [ok |-> FALSE, value |-> Undefined]

\* z.object(shape).safeParse(args), args a map from keys to values; keys
\* the shape does not have are stripped
SafeParse(shape, args) ==
    LET r == [k \in DOMAIN shape |->
                ParseField(shape[k],
                           IF k \in DOMAIN args THEN args[k] ELSE Undefined)]
    IN [success |-> \A k \in DOMAIN shape : r[k].ok,
        issues |-> {k \in DOMAIN shape : ~r[k].ok},
        data |-> [k \in {x \in DOMAIN shape : r[x].value # Undefined} |->
                    r[k].value]]

\* ------------------------------------------------------------------ loader
\* loadSOP(filepath): err is "" and sop the SOPDefinition, or err names the
\* error class raised; warnings counts the console.warn calls made
NoSOP == [name |-> "", description |-> "", version |-> "", tools |-> << >>,
          inputs |-> << >>, type |-> "", body |-> "", filepath |-> "",
          model |-> MISSING, zodSchema |-> [x \in {} |-> TaskSchema]]

\* path.basename(filepath, ".md")
Basename(file) == IF file.ext = ".md" THEN file.stem ELSE file.stem \o file.ext

loadSOPNameFromFile(file) ==
    IF ~file.exists
    THEN [err |-> "FileNotFoundError", sop |-> NoSOP, warnings |-> 0]
    ELSE IF ~file.content.parse
    THEN [err |-> "FrontmatterParseError", sop |-> NoSOP, warnings |-> 0]
    ELSE IF validateFrontmatterField(file.content) # ""
    THEN [err |-> "FrontmatterValidationError", sop |-> NoSOP,
          warnings |-> 0]
    ELSE LET fm == validateFrontmatter(file.content)
         IN [err |-> "",
             sop |-> [name |-> Basename(file),
                      description |-> fm.description,
                      version |-> IF fm.version = MISSING THEN "1.0.0"
                                  ELSE fm.version,
                      tools |-> fm.tools.val,
                      inputs |-> fm.inputs.val,
                      body |-> Trim(file.content.body),
                      filepath |-> file.stem \o file.ext,
                      type |-> fm.type,
                      model |-> MISSING,
                      zodSchema |-> generateZodSchema(fm.inputs.val)],
             warnings |-> 0]

loadSOP(file) ==
    IF ~file.exists
    THEN [err |-> "FileNotFoundError", sop |-> NoSOP, warnings |-> 0]
    ELSE IF ~file.content.parse
    THEN [err |-> "FrontmatterParseError", sop |-> NoSOP, warnings |-> 0]
    ELSE IF validateFrontmatterField(file.content) # ""
    THEN [err |-> "FrontmatterValidationError", sop |-> NoSOP,
          warnings |-> 0]
    ELSE LET fm == validateFrontmatter(file.content)
         IN [err |-> "",
             sop |-> [name |-> fm.name,
                      description |-> fm.description,
                      version |-> IF fm.version = MISSING THEN "1.0.0"
                                  ELSE fm.version,
                      tools |-> fm.tools.val,
                      inputs |-> fm.inputs.val,
                      body |-> Trim(file.content.body),
                      filepath |-> file.stem \o file.ext,
                      type |-> fm.type,
                      model |-> MISSING,
                      zodSchema |-> generateZodSchema(fm.inputs.val)],
             warnings |-> IF fm.name # Basename(file) THEN 1 ELSE 0]

\* ---------------------------------------------------------------- discovery
EmptyMap == [x \in {} |-> NoSOP]

\* files.filter((file) => file.endsWith(".md"))
mdFiles(files) == SelectSeq(files, LAMBDA f : f.ext = ".md")

\* discoverLoop without the filter on sop.type
RECURSIVE discoverLoopUnfiltered(_, _, _, _)
discoverLoopUnfiltered(files, i, registry, errors) ==
    IF i > Len(files) THEN [registry |-> registry, errors |-> errors]
    ELSE LET r == loadSOP(files[i])
         IN IF r.err # ""
            THEN discoverLoopUnfiltered(files, i + 1, registry,
                                        Append(errors, files[i].stem))
            ELSE discoverLoopUnfiltered(files, i + 1,
                                        MapSet(registry, r.sop.name, r.sop),
                                        errors)

\* discoverLoop that gives up at the first file that fails to load
RECURSIVE discoverLoopAborting(_, _, _, _)
discoverLoopAborting(files, i, registry, errors) ==
    IF i > Len(files) \/ (errors # << >>)
    THEN [registry |-> registry, errors |-> errors]
    ELSE LET r == loadSOP(files[i])
         IN IF r.err # ""
            THEN discoverLoopAborting(files, i + 1, registry,
                                      Append(errors, files[i].stem))
            ELSE IF r.sop.type # "orchestrator"
            THEN discoverLoopAborting(files, i + 1,
                                      MapSet(registry, r.sop.name, r.sop),
                                      errors)
            ELSE discoverLoopAborting(files, i + 1, registry, errors)

\* the loop of discoverAgents over mdFiles, from file index i on
RECURSIVE discoverLoop(_, _, _, _)
discoverLoop(files, i, registry, errors) ==
    IF i > Len(files) THEN [registry |-> registry, errors |-> errors]
    ELSE LET r == loadSOP(files[i])
         IN IF r.err # ""
            THEN discoverLoop(files, i + 1, registry,
                              Append(errors, files[i].stem))
            ELSE IF r.sop.type # "orchestrator"
            THEN discoverLoop(files, i + 1,
                              MapSet(registry, r.sop.name, r.sop), errors)
            ELSE discoverLoop(files, i + 1, registry, errors)

\* discoverAgents that warns whenever the registry it returns is empty
discoverAgentsWarningOnEmpty(directory) ==
    IF ~directory.exists \/ ~directory.isDir
    THEN [err |-> "DirectoryNotFoundError", registry |-> EmptyMap,
          warned |-> FALSE, errors |-> << >>]
    ELSE LET r == discoverLoop(mdFiles(directory.files), 1, EmptyMap, << >>)
         IN [err |-> "", registry |-> r.registry,
             warned |-> r.registry = EmptyMap, errors |-> r.errors]

\* discoverAgents(directory): err is "" or the error class raised; warned is
\* TRUE when the empty-directory warning was printed; errors lists the paths
\* printed by console.error, in order
discoverAgents(directory) ==
    IF ~directory.exists \/ ~directory.isDir
    THEN [err |-> "DirectoryNotFoundError", registry |-> EmptyMap,
          warned |-> FALSE, errors |-> << >>]
    ELSE IF Len(mdFiles(directory.files)) = 0
    THEN [err |-> "", registry |-> EmptyMap, warned |-> TRUE,
          errors |-> << >>]
    ELSE LET r == discoverLoop(mdFiles(directory.files), 1, EmptyMap, << >>)
         IN [err |-> "", registry |-> r.registry, warned |-> FALSE,
             errors |-> r.errors]

\* DEFAULT_ORCHESTRATOR, the built-in fallback definition
DEFAULT_ORCHESTRATOR ==
    [name |-> "orchestrator", description |-> "Master orchestrator",
     version |-> "1.0.0", tools |-> << >>, inputs |-> << >>,
     type |-> "orchestrator", body |-> "default-body",
     filepath |-> "<built-in>", model |-> MISSING,
     zodSchema |-> [x \in {"task"} |-> TaskSchema]]

\* the loop of findOrchestrator counting every file whose frontmatter
\* declares the orchestrator type, whether it loads or not
RECURSIVE findLoopCountingDeclared(_, _, _, _)
findLoopCountingDeclared(files, i, orchestrators, orchestratorFiles) ==
    IF i > Len(files)
    THEN [orchestrators |-> orchestrators,
          orchestratorFiles |-> orchestratorFiles, errors |-> << >>]
    ELSE LET r == loadSOP(files[i])
         IN IF files[i].content.type = "orchestrator"
            THEN findLoopCountingDeclared(
                     files, i + 1, Append(orchestrators, r.sop),
                     Append(orchestratorFiles, files[i].stem))
            ELSE findLoopCountingDeclared(files, i + 1, orchestrators,
                                          orchestratorFiles)

\* the loop of findOrchestrator over mdFiles, from file index i on; errors
\* lists what the loop logs, and its catch block logs nothing
RECURSIVE findLoop(_, _, _, _)
findLoop(files, i, orchestrators, orchestratorFiles) ==
    IF i > Len(files)
    THEN [orchestrators |-> orchestrators,
          orchestratorFiles |-> orchestratorFiles, errors |-> << >>]
    ELSE LET r == loadSOP(files[i])
         IN IF r.err = "" /\ r.sop.type = "orchestrator"
            THEN findLoop(files, i + 1, Append(orchestrators, r.sop),
                          Append(orchestratorFiles, files[i].stem))
            ELSE findLoop(files, i + 1, orchestrators, orchestratorFiles)

\* findOrchestrator that settles for the first coordinator it loaded
findOrchestratorFirstWins(directory) ==
    IF ~directory.exists \/ ~directory.isDir
    THEN [err |-> "DirectoryNotFoundError", sop |-> NoSOP, files |-> << >>,
          errors |-> << >>]
    ELSE LET r == findLoop(mdFiles(directory.files), 1, << >>, << >>)
         IN IF Len(r.orchestrators) >= 1
            THEN [err |-> "", sop |-> r.orchestrators[1], files |-> << >>,
                  errors |-> r.errors]
            ELSE [err |-> "", sop |-> DEFAULT_ORCHESTRATOR,
                  files |-> << >>,
                  errors |-> r.errors]

\* findOrchestrator that raises when the directory holds no coordinator
findOrchestratorStrict(directory) ==
    IF ~directory.exists \/ ~directory.isDir
    THEN [err |-> "DirectoryNotFoundError", sop |-> NoSOP, files |-> << >>,
          errors |-> << >>]
    ELSE LET r == findLoop(mdFiles(directory.files), 1, << >>, << >>)
         IN IF Len(r.orchestrators) = 0
            THEN [err |-> "OrchestratorNotFoundError", sop |-> NoSOP,
                  files |-> << >>,
                  errors |-> r.errors]
            ELSE IF Len(r.orchestrators) > 1
            THEN [err |-> "MultipleOrchestratorsError", sop |-> NoSOP,
                  files |-> r.orchestratorFiles,
                  errors |-> r.errors]
            ELSE [err |-> "", sop |-> r.orchestrators[1], files |-> << >>,
                  errors |-> r.errors]

\* findOrchestrator(directory): err is "" or the error class raised, files
\* the paths carried by MultipleOrchestratorsError
findOrchestrator(directory) ==
    IF ~directory.exists \/ ~directory.isDir
    THEN [err |-> "DirectoryNotFoundError", sop |-> NoSOP, files |-> << >>,
          errors |-> << >>]
    ELSE LET r == findLoop(mdFiles(directory.files), 1, << >>, << >>)
         IN IF Len(r.orchestrators) > 1
            THEN [err |-> "MultipleOrchestratorsError", sop |-> NoSOP,
                  files |-> r.orchestratorFiles,
                  errors |-> r.errors]
            ELSE IF Len(r.orchestrators) = 1
            THEN [err |-> "", sop |-> r.orchestrators[1], files |-> << >>,
                  errors |-> r.errors]
            ELSE [err |-> "", sop |-> DEFAULT_ORCHESTRATOR,
                  files |-> << >>,
                  errors |-> r.errors]


\* the directory the orchestrator of the main specification is pointed at
TopicInput ==
    [name |-> "topic", type |-> "string", required |-> MISSING,
     default |-> Undefined, values |-> << >>]

FileOf(stem, name, type) ==
    [stem |-> stem, ext |-> ".md", exists |-> TRUE,
     content |-> [parse |-> TRUE, name |-> name, description |-> "desc",
                  version |-> MISSING, tools |-> Absent,
                  type |-> type, body |-> "body", model |-> MISSING,
                  inputs |-> IF name = "beta" THEN Given(<< TopicInput >>)
                             ELSE Absent]]

MainDirectory ==
    [exists |-> TRUE, isDir |-> TRUE,
     files |-> << FileOf("alpha", "alpha", "agent"),
                  FileOf("beta", "beta", MISSING),
                  FileOf("orchestrator", "orchestrator", "orchestrator") >>]

\* directories on which initialize() fails: after the registry was assigned
\* (two coordinators), or before anything was (no such directory)
TwoCoordinators ==
    [exists |-> TRUE, isDir |-> TRUE,
     files |-> << FileOf("alpha", "alpha", "agent"),
                  FileOf("beta", "beta", "orchestrator"),
                  FileOf("orchestrator", "orchestrator", "orchestrator") >>]

NoDirectory == [exists |-> FALSE, isDir |-> FALSE, files |-> << >>]

MainDirectories == {MainDirectory, TwoCoordinators, NoDirectory}

\* ------------------------------------------------------------------- logger
LOG_LEVEL_PRIORITY ==
    [l \in LogLevels |-> CASE l = "debug" -> 0 [] l = "info" -> 1
                           [] l = "warn" -> 2 [] l = "error" -> 3]

\* new LoggerImpl(level, correlationId, agentName, output): correlationId 0
\* is undefined, agentName "" is undefined, output names the sink
NewLoggerImpl(level, correlationId, agentName, output) ==
    [level |-> level, correlationId |-> correlationId,
     agentName |-> agentName, output |-> output]

\* createLogger(level): a LoggerImpl without context, on the default sink
LoggerImpl(level) == NewLoggerImpl(level, 0, "", "defaultOutput")

withCorrelationId(logger, correlationId) ==
    [logger EXCEPT !.correlationId = correlationId]

\* withAgent that starts from a logger without correlation identifier
withAgentFresh(logger, agentName) ==
    NewLoggerImpl(logger.level, 0, agentName, logger.output)

withAgent(logger, agentName) == [logger EXCEPT !.agentName = agentName]

setLevel(logger, level) == [logger EXCEPT !.level = level]

shouldLog(logger, level) ==
    LOG_LEVEL_PRIORITY[level] >= LOG_LEVEL_PRIORITY[logger.level]

\* LoggerImpl.log as seen by the sink: whether output was called, on which
\* sink, and with which entry (correlationId 0 is the entry's "")
NoEntry == [correlationId |-> 0, level |-> "", agentName |-> "",
            message |-> ""]

LoggerLog(logger, level, message) ==
    IF ~shouldLog(logger, level)
    THEN [emitted |-> FALSE, sink |-> "", entry |-> NoEntry]
    ELSE [emitted |-> TRUE, sink |-> logger.output,
          entry |-> [correlationId |-> logger.correlationId,
                     level |-> level,
                     agentName |-> logger.agentName,
                     message |-> message]]

\* LoggerImpl.log: the bag of entries after logger emits msg at level; call
\* and tcall record which top-level call and which capability call were
\* being serviced (0 = none)
LogWrite(entries, logger, level, msg, call, tcall) ==
    IF ~shouldLog(logger, level) THEN entries
    ELSE entries (+) SetToBag({[correlationId |-> logger.correlationId,
                                level |-> level,
                                agentName |-> logger.agentName,
                                message |-> msg,
                                call |-> call, tcall |-> tcall]})

\* ------------------------------------------------------------------- errors
NoError == [kind |-> "", id |-> 0, message |-> "", agentName |-> "",
            task |-> "", cause |-> 0, origin |-> ""]

\* new Error("Orchestrator not initialized. Call initialize() first.")
NotInitializedError ==
    [kind |-> "Error", id |-> 0, message |-> "Orchestrator not initialized",
     agentName |-> "", task |-> "", cause |-> 0, origin |-> "guard"]

\* an Error thrown by the underlying agent of capability call id
ToolError(id, message) ==
    [kind |-> "Error", id |-> id, message |-> message, agentName |-> "",
     task |-> "", cause |-> 0, origin |-> "tool"]

\* new AgentInvocationError(agentName, task, originalError)
AgentInvocationError(agentName, task, originalError) ==
    [kind |-> "AgentInvocationError", id |-> 0,
     message |-> originalError.message, agentName |-> agentName,
     task |-> task, cause |-> originalError.id, origin |-> "tool"]

\* ------------------------------------------------------------ tool generator
\* Map.prototype.set on the agent cache (a function from names to instances)
CacheSet(cache, k, v) ==
    [x \in (DOMAIN cache) \cup {k} |-> IF x = k THEN v ELSE cache[x]]

EmptyCache == [x \in {} |-> 0]

\* getOrCreateAgent(sop) on cache, next being the identity of the next agent
\* object that `new Agent` would allocate
getOrCreateAgentForgetful(sop, cache, next) ==
    IF sop.name \in DOMAIN cache
    THEN [agent |-> cache[sop.name], created |-> FALSE, cache |-> cache]
    ELSE [agent |-> next, created |-> TRUE, cache |-> cache]

getOrCreateAgentUncached(sop, cache, next) ==
    [agent |-> next, created |-> TRUE,
     cache |-> CacheSet(cache, sop.name, next)]

getOrCreateAgent(sop, cache, next) ==
    IF sop.name \in DOMAIN cache
    THEN [agent |-> cache[sop.name], created |-> FALSE, cache |-> cache]
    ELSE [agent |-> next, created |-> TRUE,
          cache |-> CacheSet(cache, sop.name, next)]

\* JSON.stringify(value) inside a template literal
RECURSIVE JoinWith(_, _)
JoinWith(texts, sep) ==
    IF texts = << >> THEN ""
    ELSE IF Len(texts) = 1 THEN texts[1]
    ELSE texts[1] \o sep \o JoinWith(Tail(texts), sep)

Quoted(text) == "\"" \o text \o "\""

JSONStringify(value) ==
    CASE value.t = "string" -> Quoted(value.v[1])
      [] value.t \in {"number", "boolean"} -> value.v[1]
      [] value.t = "list" ->
           "[" \o JoinWith([i \in 1..Len(value.v) |-> Quoted(value.v[i])],
                           ",") \o "]"
      [] value.t = "numlist" -> "[" \o JoinWith(value.v, ",") \o "]"
      [] OTHER -> "undefined"

\* buildAgentPrompt(task, inputs): inputs is Object.entries(inputs), the
\* result is given as its lines, which the code joins with "\n"
buildAgentPromptUnfiltered(task, inputs) ==
    LET inputEntries == inputs
    IN IF Len(inputEntries) = 0 THEN << "## Task", task >>
       ELSE << "## Task", task, "", "## Input Parameters" >>
            \o [i \in 1..Len(inputEntries) |->
                  "- " \o inputEntries[i].key \o ": "
                       \o JSONStringify(inputEntries[i].value)]

buildAgentPrompt(task, inputs) ==
    LET inputEntries == SelectSeq(inputs, LAMBDA e : e.key # "task")
    IN IF Len(inputEntries) = 0 THEN << "## Task", task >>
       ELSE << "## Task", task, "", "## Input Parameters" >>
            \o [i \in 1..Len(inputEntries) |->
                  "- " \o inputEntries[i].key \o ": "
                       \o JSONStringify(inputEntries[i].value)]

\* the configuration getOrCreateAgent passes to `new Agent` when the cache
\* has no agent for the definition: model is set when sop.model ??
\* currentDefaultModelSpec is truthy (MISSING: undefined / not set)
agentConfig(sop, currentDefaultModelSpec) ==
    LET modelSpec == IF sop.model # MISSING THEN sop.model
                     ELSE currentDefaultModelSpec
    IN [systemPrompt |-> sop.body,
        model |-> IF modelSpec # MISSING /\ modelSpec # "" THEN modelSpec
                  ELSE MISSING]

\* agentCache.clear()
clearCacheKeeping(cache) == cache

clearCache(cache) == EmptyCache

\* a name as the pieces that the pattern /^agent_/ tells apart: the prefix
\* where the name begins with it, and the rest
AgentPrefix == "agent_"

Pieces(name) ==
    IF name = "agent_alpha" THEN << AgentPrefix, "alpha" >> ELSE << name >>

\* the tool name given by createTool, `agent_${sop.name}`
ToolName(name) == << AgentPrefix >> \o Pieces(name)

\* the wrapper's replace(/^agent_/, ""): one leading prefix is removed
RECURSIVE StripAgentPrefixes(_)
StripAgentPrefixes(toolName) ==
    IF toolName # << >> /\ Head(toolName) = AgentPrefix
    THEN StripAgentPrefixes(Tail(toolName))
    ELSE Joined(toolName)

StripAgentPrefix(toolName) ==
    IF toolName # << >> /\ Head(toolName) = AgentPrefix
    THEN Joined(Tail(toolName))
    ELSE Joined(toolName)

\* createTool(sop)
createTool(sop) ==
    [name |-> ToolName(sop.name), description |-> sop.description,
     inputSchema |-> sop.zodSchema, sop |-> sop]

\* createAllTools(registry)
createAllTools(registry) == {createTool(registry[n]) : n \in DOMAIN registry}

\* ------------------------------------------------------------- orchestrator
\* the resolved configuration built by the constructor
ResolveConfig(input) ==
    [errorMode |-> IF input.errorMode = MISSING THEN "fail-fast"
                   ELSE input.errorMode,
     logLevel |-> IF input.logLevel = MISSING THEN "info"
                  ELSE input.logLevel,
     showThinking |-> IF input.showThinking = MISSING THEN "false"
                      ELSE input.showThinking]

\* get config(): the object handed to the caller; ref tells whether it is a
\* copy or the orchestrator's own _config object
configGetterAliasing(cfg) == [ref |-> "internal", val |-> cfg]

configGetter(cfg) == [ref |-> "copy", val |-> cfg]

\* JSON.stringify of the structured failure payload of continue mode
NoResult == [json |-> FALSE, success |-> TRUE, agentName |-> "",
             message |-> "", code |-> "", text |-> ""]

TextResult(text) == [NoResult EXCEPT !.text = text]

failurePayloadToolName(agentName, originalError) ==
    [json |-> TRUE, success |-> FALSE,
     agentName |-> "agent_" \o agentName,
     message |-> originalError.message, code |-> "AGENT_INVOCATION_ERROR",
     text |-> ""]

failurePayload(agentName, originalError) ==
    [json |-> TRUE, success |-> FALSE, agentName |-> agentName,
     message |-> originalError.message, code |-> "AGENT_INVOCATION_ERROR",
     text |-> ""]

\* the catch block of wrappedInvoke after the error has been logged
invokeCatchSwallowing(errorMode, agentName, task, originalError) ==
    [raised |-> FALSE, error |-> NoError,
     result |-> failurePayload(agentName, originalError)]

invokeCatch(errorMode, agentName, task, originalError) ==
    IF errorMode = "fail-fast"
    THEN [raised |-> TRUE,
          error |-> AgentInvocationError(agentName, task, originalError),
          result |-> NoResult]
    ELSE [raised |-> FALSE, error |-> NoError,
          result |-> failurePayload(agentName, originalError)]

\* wrapToolsWithErrorHandling(tools) against the current registry
\* (the wrapped tools, keyed by the agent name each wrapper computed; original
\* is the tool the wrapper delegates to)
wrapToolsWithErrorHandling(tools, reg) ==
    [a \in {StripAgentPrefix(t.name) : t \in tools} |->
        LET t == CHOOSE u \in tools : StripAgentPrefix(u.name) = a
        IN [name |-> t.name, description |-> t.description,
            inputSchema |-> t.inputSchema,
            agentName |-> a,
            hasSop |-> a \in DOMAIN reg,
            sop |-> IF a \in DOMAIN reg THEN reg[a] ELSE NoSOP,
            original |-> t]]

NoSession == [live |-> FALSE, systemPrompt |-> "",
              tools |-> [a \in {} |-> NoSOP]]

\* ------------------------------------------------------- the engine's events
MaxEvents == 3       \* events of an engine run

\* the events of orchestratorAgent.stream(request) that invoke() looks at;
\* strings are sequences of characters
Events ==
    {[type |-> "textDelta", text |-> << "a" >>, names |-> << >>],
     [type |-> "textDelta", text |-> << "b" >>, names |-> << >>],
     [type |-> "thinkingDelta", text |-> << "k" >>, names |-> << >>],
     [type |-> "toolUseStart", text |-> << >>, names |-> << "agent_alpha" >>],
     [type |-> "beforeToolsEvent", text |-> << >>,
      names |-> << "agent_alpha" >>],
     [type |-> "beforeToolsEvent", text |-> << >>,
      names |-> << "agent_beta", "agent_alpha" >>]}

\* the event sequences of at most n events
RECURSIVE EventSeqs(_)
EventSeqs(n) ==
    IF n = 0 THEN {<< >>}
    ELSE EventSeqs(n - 1)
         \cup {Append(q, e) : q \in {p \in EventSeqs(n - 1) : Len(p) = n - 1},
                               e \in Events}

\* the options argument of invoke: absent, or an object whose showThinking
\* is absent, true or false
NoOptions == [given |-> FALSE, showThinking |-> MISSING]

InvokeOptionss ==
    {NoOptions}
    \cup {[given |-> TRUE, showThinking |-> v] :
             v \in {MISSING, "true", "false"}}

\* options?.showThinking ?? this._config.showThinking
showThinking(options, cfg) ==
    IF options.given /\ options.showThinking # MISSING
    THEN options.showThinking
    ELSE cfg.showThinking

\* the loop of invoke over the engine's events, from event i on: acc holds
\* responseText, thinking, toolCalls and the log entries
RECURSIVE invokeLoopNewestFirst(_, _, _, _, _)
invokeLoopNewestFirst(events, i, thinks, requestLogger, acc) ==
    IF i > Len(events) THEN acc
    ELSE LET e == events[i]
         IN invokeLoopNewestFirst(events, i + 1, thinks, requestLogger,
              CASE e.type = "thinkingDelta" /\ e.text # << >>
                        /\ thinks = "true" ->
                     [acc EXCEPT
                        !.thinking = Append(@, e.text),
                        !.log = LogWrite(@, requestLogger, "debug",
                                         "Thinking", 0, 0)]
                [] e.type = "textDelta" ->
                     [acc EXCEPT !.responseText = e.text \o @]
                [] e.type = "toolUseStart" /\ e.names # << >> ->
                     [acc EXCEPT
                        !.log = LogWrite(@, requestLogger, "debug",
                                         "Tool selected", 0, 0)]
                [] e.type = "beforeToolsEvent" ->
                     [acc EXCEPT !.toolCalls = @ \o e.names]
                [] OTHER -> acc)

RECURSIVE invokeLoop(_, _, _, _, _)
invokeLoop(events, i, thinks, requestLogger, acc) ==
    IF i > Len(events) THEN acc
    ELSE LET e == events[i]
         IN invokeLoop(events, i + 1, thinks, requestLogger,
              CASE e.type = "thinkingDelta" /\ e.text # << >>
                        /\ thinks = "true" ->
                     [acc EXCEPT
                        !.thinking = Append(@, e.text),
                        !.log = LogWrite(@, requestLogger, "debug",
                                         "Thinking", 0, 0)]
                [] e.type = "textDelta" ->
                     [acc EXCEPT !.responseText = @ \o e.text]
                [] e.type = "toolUseStart" /\ e.names # << >> ->
                     [acc EXCEPT
                        !.log = LogWrite(@, requestLogger, "debug",
                                         "Tool selected", 0, 0)]
                [] e.type = "beforeToolsEvent" ->
                     [acc EXCEPT !.toolCalls = @ \o e.names]
                [] OTHER -> acc)

\* what invoke returns: the text alone, or the InvokeResult object
NoInvokeResult ==
    [shape |-> "", response |-> << >>, thinking |-> << >>,
     hasThinking |-> FALSE, toolCalls |-> << >>, hasToolCalls |-> FALSE]

invokeReturn(options, acc) ==
    IF options.given
    THEN [shape |-> "InvokeResult", response |-> acc.responseText,
          thinking |-> acc.thinking,
          hasThinking |-> Len(acc.thinking) > 0,
          toolCalls |-> acc.toolCalls,
          hasToolCalls |-> Len(acc.toolCalls) > 0]
    ELSE [NoInvokeResult EXCEPT !.shape = "string",
                                !.response = acc.responseText]

\* an engine run with its events spelled out: the events the engine will
\* produce, whether it raises after them, and the options of the call
NoRun ==
    [events |-> << >>, raises |-> FALSE, options |-> NoOptions,
     kind |-> "", st |-> "ready", correlationId |-> 0, pulled |-> 0,
     yielded |-> << >>, result |-> NoInvokeResult, error |-> NoError]

Runs ==
    {[NoRun EXCEPT !.events = ev, !.raises = r, !.options = o] :
        ev \in EventSeqs(MaxEvents), r \in BOOLEAN, o \in InvokeOptionss}

VARIABLES
    cfgInput,             \* the config object passed to the constructor
    config,               \* this._config
    held,                 \* the object last returned by the config getter
    logger,               \* this.logger
    directory,            \* the file system under _config.directory
    registry,             \* this.registry
    orchestratorAgent,    \* this.orchestratorAgent (the engine session)
    currentCorrelationId, \* this.currentCorrelationId (0 = undefined)
    calls,                \* the top-level invoke/stream calls, in start order
    tcalls,               \* the capability calls issued by the engine
    agentCache,           \* the tool generator's agentCache
    nextAgent,            \* identity of the next agent object allocated
    log,                  \* bag of the entries logged while serving requests
    returned,             \* per name: agents returned since the last clear
    built,                \* per name: agents constructed since last clear
    returnCalls,          \* per name: returns since last clear, 2 = several
    returnedBefore,       \* agents returned before the last clearCache
    evicted,              \* agents removed from the cache by clearCache
    discovered,           \* outcome of the last direct discoverAgents call
    found,                \* outcome of the last direct findOrchestrator call
    initialized,          \* outcome of the last initialize() call
    run,                  \* an engine run whose events are spelled out
    heldRegistry,         \* the Map last returned by getRegistry()
    applied,              \* the last direct call of an exported function
    moduleState,          \* the module-level variables of the tool generator
    agentHeap,            \* the configurations passed to `new Agent`, by id
    instances,            \* the OrchestratorImpl objects of one process
    disk,                 \* the directory they are configured with
    served                \* the capability calls they have served

vars == << cfgInput, config, held, logger, directory, registry,
           orchestratorAgent, currentCorrelationId, calls, tcalls,
           agentCache, nextAgent, log, returned, built, returnCalls,
           returnedBefore, evicted, discovered, found, initialized,
           run, heldRegistry, applied, moduleState, agentHeap, instances,
           disk, served >>

processVars == << moduleState, agentHeap, instances, disk, served >>
cfgVars == << cfgInput, config, held, logger, directory, applied,
             processVars >>
scanVars == << discovered, found, initialized, run, heldRegistry >>
cacheGhost == << returned, built, returnCalls, returnedBefore, evicted >>

\* the definitions a caller can pass to getOrCreateAgent directly
KnownSOPs ==
    {loadSOP(MainDirectory.files[i]).sop : i \in 1..2}

NotScanned == [ran |-> FALSE, err |-> "", registry |-> EmptyMap,
               warned |-> FALSE, errors |-> << >>, sop |-> NoSOP,
               files |-> << >>]

\* the tool generator's module state when the module has been loaded
ModuleLoaded ==
    [agentCache |-> EmptyCache, currentDefaultModelSpec |-> MISSING,
     currentDefaultProvider |-> "bedrock", printerEnabled |-> TRUE,
     toolRegistry |-> {}]

\* the orchestrators one process constructs, and one before `new`
InstanceNames == {"A", "B"}

\* the constructor's argument with the settings of the tool generator, and
\* this._config as the constructor resolves it (orchestrator.ts 60-68);
\* tools is the set of names of the tool registry, {} also when undefined
NoInput ==
    [errorMode |-> MISSING, logLevel |-> MISSING, showThinking |-> MISSING,
     defaultModel |-> MISSING, defaultProvider |-> MISSING,
     tools |-> {}]

ResolvedOrchestratorConfig(input) ==
    [errorMode |-> ResolveConfig(input).errorMode,
     logLevel |-> ResolveConfig(input).logLevel,
     showThinking |-> ResolveConfig(input).showThinking,
     defaultModel |-> input.defaultModel,
     defaultProvider |-> IF input.defaultProvider = MISSING THEN "bedrock"
                         ELSE input.defaultProvider,
     tools |-> input.tools]

NotConstructed ==
    [constructed |-> FALSE, input |-> NoInput,
     config |-> ResolvedOrchestratorConfig(NoInput),
     registry |-> EmptyMap, orchestratorSOP |-> NoSOP,
     orchestratorAgent |-> NoSession, initializations |-> 0]

\* no exported function has been called directly
NotApplied == [fn |-> "", arg |-> << >>, out |-> << >>]

\* the state after construction, apart from the constructor's argument and
\* the file system
Constructed ==
    /\ config = ResolveConfig(cfgInput)
    /\ held = [ref |-> "none", val |-> ResolveConfig(cfgInput)]
    /\ logger = LoggerImpl(ResolveConfig(cfgInput).logLevel)
    /\ registry = EmptyMap
    /\ orchestratorAgent = NoSession
    /\ currentCorrelationId = 0
    /\ calls = << >>
    /\ tcalls = << >>
    /\ agentCache = EmptyCache
    /\ nextAgent = 1
    /\ log = EmptyBag
    /\ returned = [n \in AgentNames |-> {}]
    /\ built = [n \in AgentNames |-> 0]
    /\ returnCalls = [n \in AgentNames |-> 0]
    /\ returnedBefore = {}
    /\ evicted = {}
    /\ discovered = NotScanned
    /\ found = NotScanned
    /\ initialized = [ran |-> FALSE, err |-> "", scans |-> 0]
    /\ heldRegistry = [ref |-> "none", current |-> FALSE, val |-> EmptyMap]
    /\ applied = NotApplied
    /\ moduleState = ModuleLoaded
    /\ agentHeap = << >>
    /\ instances = [o \in InstanceNames |-> NotConstructed]
    /\ disk = NoDirectory
    /\ served = << >>

Init ==
    /\ cfgInput \in [errorMode : {MISSING} \cup ErrorModes,
                     logLevel : {MISSING, "debug", "error"},
                     showThinking : {MISSING}]
    /\ directory \in MainDirectories
    /\ run = NoRun
    /\ Constructed

\* bookkeeping of one getOrCreateAgent return r for name n
NoteReturn(n, r) ==
    /\ returned' = [returned EXCEPT ![n] = @ \cup {r.agent}]
    /\ built' = [built EXCEPT ![n] = IF r.created THEN @ + 1 ELSE @]
    /\ returnCalls' = [returnCalls EXCEPT ![n] = IF @ < 2 THEN @ + 1 ELSE @]
    /\ UNCHANGED << returnedBefore, evicted >>

\* initialize() that falls back to the built-in definition, and builds the
\* session, when looking up the orchestrator fails
InitializeFallingBack ==
    \E d \in {discoverAgents(directory)},
       o \in {findOrchestrator(directory)} :
       /\ initialized' = [ran |-> TRUE, err |-> d.err, scans |-> 1]
       /\ heldRegistry' = IF d.err = ""
                          THEN [heldRegistry EXCEPT !.current = FALSE]
                          ELSE heldRegistry
       /\ registry' = IF d.err = "" THEN d.registry ELSE registry
       /\ orchestratorAgent' =
              IF d.err = ""
              THEN [live |-> TRUE,
                    systemPrompt |-> IF o.err = "" THEN o.sop.body
                                     ELSE DEFAULT_ORCHESTRATOR.body,
                    tools |-> wrapToolsWithErrorHandling(
                                  createAllTools(d.registry), d.registry)]
              ELSE orchestratorAgent
       /\ UNCHANGED << cfgVars, discovered, found, run,
                       currentCorrelationId, calls, tcalls, agentCache,
                       nextAgent, log, cacheGhost >>

\* initialize(): discovery, tool creation and wrapping, new engine session.
\* A discovery error leaves everything as it was; an error of
\* findOrchestrator comes after this.registry has been assigned.
InitializeClearing ==
    \E d \in {discoverAgents(directory)},
       o \in {findOrchestrator(directory)} :
       /\ initialized' = [ran |-> TRUE,
                          err |-> IF d.err # "" THEN d.err ELSE o.err,
                          scans |-> 1]
       /\ heldRegistry' = IF d.err = ""
                          THEN [heldRegistry EXCEPT !.current = FALSE]
                          ELSE heldRegistry
       /\ registry' = IF d.err = "" THEN d.registry ELSE registry
       /\ orchestratorAgent' =
              IF d.err = "" /\ o.err = ""
              THEN [live |-> TRUE, systemPrompt |-> o.sop.body,
                    tools |-> wrapToolsWithErrorHandling(
                                  createAllTools(d.registry), d.registry)]
              ELSE orchestratorAgent
       /\ agentCache' = EmptyCache
       /\ UNCHANGED << cfgVars, discovered, found, run,
                       currentCorrelationId, calls, tcalls, nextAgent, log,
                       cacheGhost >>

Initialize ==
    \E d \in {discoverAgents(directory)},
       o \in {findOrchestrator(directory)} :
       /\ initialized' = [ran |-> TRUE,
                          err |-> IF d.err # "" THEN d.err ELSE o.err,
                          scans |-> 1]
       /\ heldRegistry' = IF d.err = ""
                          THEN [heldRegistry EXCEPT !.current = FALSE]
                          ELSE heldRegistry
       /\ registry' = IF d.err = "" THEN d.registry ELSE registry
       /\ orchestratorAgent' =
              IF d.err = "" /\ o.err = ""
              THEN [live |-> TRUE, systemPrompt |-> o.sop.body,
                    tools |-> wrapToolsWithErrorHandling(
                                  createAllTools(d.registry), d.registry)]
              ELSE orchestratorAgent
       /\ UNCHANGED << cfgVars, discovered, found, run,
                       currentCorrelationId, calls, tcalls, agentCache,
                       nextAgent, log, cacheGhost >>

\* get config()
ConfigGet ==
    /\ held' = configGetter(config)
    /\ UNCHANGED << scanVars, applied, processVars, cfgInput, config,
                    logger, directory, registry,
                    orchestratorAgent, currentCorrelationId, calls, tcalls,
                    agentCache, nextAgent, log, cacheGhost >>

\* the caller assigns errorMode on the object the getter returned
MutateHeld(m) ==
    /\ held.ref # "none"
    /\ held.val.errorMode # m
    /\ held' = [held EXCEPT !.val.errorMode = m]
    /\ config' = IF held.ref = "internal"
                 THEN [config EXCEPT !.errorMode = m] ELSE config
    /\ UNCHANGED << scanVars, applied, processVars, cfgInput, logger,
                    directory, registry,
                    orchestratorAgent, currentCorrelationId, calls, tcalls,
                    agentCache, nextAgent, log, cacheGhost >>

\* clearCache() of the orchestrator, which calls the tool generator's
ClearCache ==
    /\ agentCache' = clearCache(agentCache)
    /\ evicted' = evicted \cup
                    ({agentCache[n] : n \in DOMAIN agentCache}
                      \ {agentCache'[n] : n \in DOMAIN agentCache'})
    /\ returnedBefore' = returnedBefore \cup UNION {returned[n] : n \in AgentNames}
    /\ returned' = [n \in AgentNames |-> {}]
    /\ built' = [n \in AgentNames |-> 0]
    /\ returnCalls' = [n \in AgentNames |-> 0]
    /\ UNCHANGED << cfgVars, scanVars, registry, orchestratorAgent,
                    currentCorrelationId, calls, tcalls, nextAgent, log >>

\* a direct call of the exported getOrCreateAgent(sop), without logger
GetOrCreateAgent(sop) ==
    LET r == getOrCreateAgent(sop, agentCache, nextAgent)
    IN /\ r.created => nextAgent <= MaxInst
       /\ agentCache' = r.cache
       /\ nextAgent' = IF r.created THEN nextAgent + 1 ELSE nextAgent
       /\ NoteReturn(sop.name, r)
       /\ UNCHANGED << cfgVars, scanVars, registry, orchestratorAgent,
                       currentCorrelationId, calls, tcalls, log >>

\* generateCorrelationId(): a fresh identifier for each call
generateCorrelationId == Len(calls) + 1

\* invoke(request) / stream(request) up to the first await on the engine:
\* without an engine session the call throws at once; otherwise the
\* correlation id is generated and stored and the start entry is logged
InvokeUnguarded(kind) ==
    /\ Len(calls) + Len(tcalls) < MaxRequests
    /\ LET correlationId == generateCorrelationId
           requestLogger == withCorrelationId(logger, correlationId)
       IN /\ currentCorrelationId' = correlationId
          /\ log' = LogWrite(log, requestLogger, "info",
                             IF kind = "invoke" THEN "Processing request"
                             ELSE "Streaming request",
                             Len(calls) + 1, 0)
          /\ calls' = Append(calls,
                 [kind |-> kind, correlationId |-> correlationId,
                  st |-> "running", error |-> NoError,
                  agent |-> orchestratorAgent, runs |-> 1])
    /\ UNCHANGED << cfgVars, scanVars, registry, orchestratorAgent, tcalls,
                    agentCache, nextAgent, cacheGhost >>

Invoke(kind) ==
    /\ Len(calls) + Len(tcalls) < MaxRequests
    /\ IF ~orchestratorAgent.live
       THEN /\ calls' = Append(calls,
                   [kind |-> kind, correlationId |-> 0, st |-> "rejected",
                    error |-> NotInitializedError,
                    agent |-> orchestratorAgent, runs |-> 0])
            /\ UNCHANGED << currentCorrelationId, log >>
       ELSE LET correlationId == generateCorrelationId
                requestLogger == withCorrelationId(logger, correlationId)
            IN /\ currentCorrelationId' = correlationId
               /\ log' = LogWrite(log, requestLogger, "info",
                                  IF kind = "invoke"
                                  THEN "Processing request"
                                  ELSE "Streaming request",
                                  Len(calls) + 1, 0)
               /\ calls' = Append(calls,
                      [kind |-> kind, correlationId |-> correlationId,
                       st |-> "running", error |-> NoError,
                       agent |-> orchestratorAgent, runs |-> 1])
    /\ UNCHANGED << cfgVars, scanVars, registry, orchestratorAgent, tcalls,
                    agentCache, nextAgent, cacheGhost >>

\* the logger built at the top of wrappedInvoke and wrappedStream
ToolLogger(agentName) ==
    IF currentCorrelationId # 0
    THEN withAgent(withCorrelationId(logger, currentCorrelationId),
                   agentName)
    ELSE withAgent(logger, agentName)

\* the engine of call c calls wrapped tool t through entry point entry:
\* wrappedInvoke up to `await originalTool.invoke(input)`, or wrappedStream
\* up to `return originalTool.stream(toolContext)`
EngineCallTool(c, a, entry, task) ==
    /\ calls[c].st = "running"
    /\ a \in DOMAIN calls[c].agent.tools
    /\ Len(calls) + Len(tcalls) < MaxRequests
    /\ \A i \in 1..Len(tcalls) :
           tcalls[i].call = c => tcalls[i].st # "raised"
    /\ LET t == calls[c].agent.tools[a]
           agentLogger == ToolLogger(t.agentName)
           id == Len(tcalls) + 1
           r == IF t.hasSop
                THEN getOrCreateAgent(t.sop, agentCache, nextAgent)
                ELSE [agent |-> 0, created |-> FALSE, cache |-> agentCache]
           log1 == IF entry = "invoke"
                   THEN LogWrite(log, agentLogger, "debug",
                                 "Tool invoke called", c, id)
                   ELSE log
           log2 == IF r.created
                   THEN LogWrite(log1, agentLogger, "info",
                                 "Creating agent with model", c, id)
                   ELSE log1
       IN /\ r.created => nextAgent <= MaxInst
          /\ agentCache' = r.cache
          /\ nextAgent' = IF r.created THEN nextAgent + 1 ELSE nextAgent
          /\ IF t.hasSop THEN NoteReturn(t.sop.name, r)
             ELSE UNCHANGED cacheGhost
          /\ log' = LogWrite(log2, agentLogger, "info",
                             "Invoking agent with task", c, id)
          /\ tcalls' = Append(tcalls,
                 [call |-> c, agentName |-> a, entry |-> entry,
                  task |-> task,
                  logger |-> agentLogger, st |-> "delegated", agent |-> 0,
                  failure |-> NoError, mode |-> "", heldMode |-> "",
                  error |-> NoError, result |-> NoResult,
                  invocations |-> 0])
    /\ UNCHANGED << cfgVars, scanVars, registry, orchestratorAgent,
                    currentCorrelationId, calls >>

\* the wrapped tool that capability call i was issued on
ToolOf(i) == calls[tcalls[i].call].agent.tools[tcalls[i].agentName]

\* the callback of createTool made to wait until no other call is running
\* on the agent of the same definition
ToolCallbackBeginSerialized(i) ==
    /\ tcalls[i].st = "delegated"
    /\ \A j \in 1..Len(tcalls) :
           tcalls[j].st = "executing" =>
               tcalls[j].agentName # tcalls[i].agentName
    /\ LET sop == calls[tcalls[i].call].agent.tools[tcalls[i].agentName]
                      .original.sop
           r == getOrCreateAgent(sop, agentCache, nextAgent)
       IN /\ r.created => nextAgent <= MaxInst
          /\ agentCache' = r.cache
          /\ nextAgent' = IF r.created THEN nextAgent + 1 ELSE nextAgent
          /\ NoteReturn(sop.name, r)
          /\ tcalls' = [tcalls EXCEPT ![i].st = "executing",
                                      ![i].agent = r.agent,
                                      ![i].invocations = @ + 1]
    /\ UNCHANGED << cfgVars, scanVars, registry, orchestratorAgent,
                    currentCorrelationId, calls, log >>

\* the callback of createTool starts: getOrCreateAgent(sop) without logger,
\* then agent.stream(prompt)
ToolCallbackBegin(i) ==
    /\ tcalls[i].st = "delegated"
    /\ LET sop == ToolOf(i).original.sop
           r == getOrCreateAgent(sop, agentCache, nextAgent)
       IN /\ r.created => nextAgent <= MaxInst
          /\ agentCache' = r.cache
          /\ nextAgent' = IF r.created THEN nextAgent + 1 ELSE nextAgent
          /\ NoteReturn(sop.name, r)
          /\ tcalls' = [tcalls EXCEPT ![i].st = "executing",
                                      ![i].agent = r.agent,
                                      ![i].invocations = @ + 1]
    /\ UNCHANGED << cfgVars, scanVars, registry, orchestratorAgent,
                    currentCorrelationId, calls, log >>

\* the sub-agent finishes: the callback returns its text; wrappedInvoke logs
\* the completion and returns it, the stream entry point passes it on
ToolReturn(i) ==
    /\ tcalls[i].st = "executing"
    /\ tcalls' = [tcalls EXCEPT ![i].st = "returned",
                                ![i].result = TextResult("out")]
    /\ log' = IF tcalls[i].entry = "invoke"
              THEN LogWrite(LogWrite(log, tcalls[i].logger, "info",
                                     "Completed", tcalls[i].call, i),
                            tcalls[i].logger, "debug", "Output preview",
                            tcalls[i].call, i)
              ELSE log
    /\ UNCHANGED << cfgVars, scanVars, registry, orchestratorAgent,
                    currentCorrelationId, calls, agentCache, nextAgent,
                    cacheGhost >>

\* the sub-agent throws: the catch block of wrappedInvoke logs and applies
\* the error mode; the stream entry point has no catch block
ToolThrowRetrying(i, message) ==
    /\ tcalls[i].st = "executing"
    /\ LET originalError == ToolError(i, message)
           o == invokeCatch(config.errorMode, ToolOf(i).agentName,
                            tcalls[i].task, originalError)
       IN IF tcalls[i].entry = "invoke"
          THEN /\ log' = LogWrite(log, tcalls[i].logger, "error", "Failed",
                                  tcalls[i].call, i)
               /\ tcalls' = [tcalls EXCEPT
                      ![i].st = IF tcalls[i].invocations < 2 THEN "delegated"
                                ELSE IF o.raised THEN "raised"
                                ELSE "returned",
                      ![i].failure = originalError,
                      ![i].mode = config.errorMode,
                      ![i].heldMode = IF held.ref = "none" THEN ""
                                      ELSE held.val.errorMode,
                      ![i].error = o.error,
                      ![i].result = o.result]
          ELSE /\ log' = log
               /\ tcalls' = [tcalls EXCEPT ![i].st = "raised",
                                           ![i].failure = originalError,
                                           ![i].error = originalError]
    /\ UNCHANGED << cfgVars, scanVars, registry, orchestratorAgent,
                    currentCorrelationId, calls, agentCache, nextAgent,
                    cacheGhost >>

ToolThrow(i, message) ==
    /\ tcalls[i].st = "executing"
    /\ LET originalError == ToolError(i, message)
           o == invokeCatch(config.errorMode, ToolOf(i).agentName,
                            tcalls[i].task, originalError)
       IN IF tcalls[i].entry = "invoke"
          THEN /\ log' = LogWrite(log, tcalls[i].logger, "error", "Failed",
                                  tcalls[i].call, i)
               /\ tcalls' = [tcalls EXCEPT
                      ![i].st = IF o.raised THEN "raised" ELSE "returned",
                      ![i].failure = originalError,
                      ![i].mode = config.errorMode,
                      ![i].heldMode = IF held.ref = "none" THEN ""
                                      ELSE held.val.errorMode,
                      ![i].error = o.error,
                      ![i].result = o.result]
          ELSE /\ log' = log
               /\ tcalls' = [tcalls EXCEPT ![i].st = "raised",
                                           ![i].failure = originalError,
                                           ![i].error = originalError]
    /\ UNCHANGED << cfgVars, scanVars, registry, orchestratorAgent,
                    currentCorrelationId, calls, agentCache, nextAgent,
                    cacheGhost >>

\* the logger captured by the top-level call c
RequestLogger(c) == withCorrelationId(logger, calls[c].correlationId)

\* the catch block of invoke / stream rethrowing without the failure entry
EngineRaiseSilent(c, i) ==
    /\ calls[c].st = "running"
    /\ tcalls[i].call = c
    /\ tcalls[i].st = "raised"
    /\ calls' = [calls EXCEPT ![c].st = "rejected",
                              ![c].error = tcalls[i].error]
    /\ UNCHANGED << cfgVars, scanVars, registry, orchestratorAgent,
                    currentCorrelationId, tcalls, agentCache, nextAgent,
                    cacheGhost, log >>

\* an error raised by a capability call reaches the engine loop of call c:
\* the catch block logs the failure and rethrows
EngineRaise(c, i) ==
    /\ calls[c].st = "running"
    /\ tcalls[i].call = c
    /\ tcalls[i].st = "raised"
    /\ calls' = [calls EXCEPT ![c].st = "rejected",
                              ![c].error = tcalls[i].error]
    /\ log' = LogWrite(log, RequestLogger(c), "error",
                       IF calls[c].kind = "invoke" THEN "Request failed"
                       ELSE "Stream failed", c, 0)
    /\ UNCHANGED << cfgVars, scanVars, registry, orchestratorAgent,
                    currentCorrelationId, tcalls, agentCache, nextAgent,
                    cacheGhost >>

\* the engine run of call c ends after every capability call it issued has
\* returned: the completion is logged and the call resolves
EngineComplete(c) ==
    /\ calls[c].st = "running"
    /\ \A i \in 1..Len(tcalls) :
           tcalls[i].call = c => tcalls[i].st = "returned"
    /\ calls' = [calls EXCEPT ![c].st = "resolved"]
    /\ log' = LogWrite(log, RequestLogger(c), "info",
                       IF calls[c].kind = "invoke" THEN "Request completed"
                       ELSE "Stream completed", c, 0)
    /\ UNCHANGED << cfgVars, scanVars, registry, orchestratorAgent,
                    currentCorrelationId, tcalls, agentCache, nextAgent,
                    cacheGhost >>

\* the steps of a request: the top-level calls, the engine, the capabilities
RequestStep ==
    \/ \E kind \in EntryPoints : Invoke(kind)
    \/ \E c \in 1..Len(calls) :
         \E a \in DOMAIN calls[c].agent.tools, entry \in EntryPoints,
            task \in Tasks : EngineCallTool(c, a, entry, task)
    \/ \E i \in 1..Len(tcalls) : ToolCallbackBegin(i)
    \/ \E i \in 1..Len(tcalls) : ToolReturn(i)
    \/ \E i \in 1..Len(tcalls), m \in ErrorMessages : ToolThrow(i, m)
    \/ \E c \in 1..Len(calls), i \in 1..Len(tcalls) : EngineRaise(c, i)
    \/ \E c \in 1..Len(calls) : EngineComplete(c)

\* the orchestrator as its callers drive it
Next ==
    \/ Initialize
    \/ ConfigGet
    \/ \E m \in ErrorModes : MutateHeld(m)
    \/ ClearCache
    \/ RequestStep

Spec == Init /\ [][Next]_vars

\* the tool generator's cache, driven by the orchestrator and by direct calls
InitCache ==
    /\ Init
    /\ cfgInput.errorMode # MISSING
    /\ cfgInput.logLevel = MISSING

NextCache ==
    \/ Initialize
    \/ ClearCache
    \/ \E sop \in KnownSOPs : GetOrCreateAgent(sop)
    \/ RequestStep

SpecCache == InitCache /\ [][NextCache]_vars

\* ------------------------------------------------- discovery on its own
MaxFiles == 3        \* file slots of a scanned directory

Stems == << "alpha", "beta", "gamma", "delta", "epsilon" >>

\* what a file of the directory can hold
\* a frontmatter with the optional keys left out
Frontmatter(parse, name, description, type) ==
    [parse |-> parse, name |-> name, description |-> description,
     version |-> MISSING, tools |-> Absent, type |-> type,
     body |-> IF parse THEN "body" ELSE "", model |-> MISSING,
     inputs |-> IF name = "beta" THEN Given(<< TopicInput >>) ELSE Absent]

Contents ==
    {Frontmatter(FALSE, MISSING, MISSING, MISSING)}
    \cup {Frontmatter(TRUE, n, "desc", t) :
              n \in {"alpha", "beta", "agent_alpha"},
              t \in {"agent", "orchestrator"}}
    \cup {Frontmatter(TRUE, "alpha", "desc", MISSING),
          Frontmatter(TRUE, MISSING, "desc", "agent"),
          Frontmatter(TRUE, BLANK, "desc", "agent"),
          Frontmatter(TRUE, "alpha", MISSING, "agent"),
          Frontmatter(TRUE, "alpha", MISSING, "orchestrator"),
          Frontmatter(TRUE, "alpha", "desc", "bogus")}

NoFile == [stem |-> "", ext |-> "", exists |-> FALSE,
           content |-> CHOOSE c \in Contents : TRUE]

\* what file slot k can hold: nothing, a .md file, or a file of another kind
Slot(k) ==
    {NoFile}
    \cup {[stem |-> Stems[k], ext |-> ".md", exists |-> TRUE,
           content |-> c] : c \in Contents}
    \cup {[stem |-> Stems[k], ext |-> ".txt", exists |-> TRUE,
           content |-> CHOOSE c \in Contents : TRUE]}

\* fs.readdirSync: the files present, in name order
Listing(slots) == SelectSeq(slots, LAMBDA f : f # NoFile)

\* the ways to fill the first k file slots
RECURSIVE Fillings(_)
Fillings(k) ==
    IF k = 0 THEN {<< >>}
    ELSE {Append(q, f) : q \in Fillings(k - 1), f \in Slot(k)}

Directories ==
    {[exists |-> TRUE, isDir |-> TRUE, files |-> Listing(slots)] :
        slots \in Fillings(MaxFiles)}
    \cup {[exists |-> FALSE, isDir |-> FALSE, files |-> << >>],
          [exists |-> TRUE, isDir |-> FALSE, files |-> << >>]}

InitDiscovery ==
    /\ cfgInput = [errorMode |-> MISSING, logLevel |-> MISSING,
                   showThinking |-> MISSING]
    /\ directory \in Directories
    /\ run = NoRun
    /\ Constructed

\* a call of the exported discoverAgents(directory)
DiscoverAgents ==
    /\ discovered' = [NotScanned EXCEPT
           !.ran = TRUE,
           !.err = discoverAgents(directory).err,
           !.registry = discoverAgents(directory).registry,
           !.warned = discoverAgents(directory).warned,
           !.errors = discoverAgents(directory).errors]
    /\ UNCHANGED << cfgVars, found, initialized, run, heldRegistry, registry,
                    orchestratorAgent, currentCorrelationId, calls, tcalls,
                    agentCache, nextAgent, log, cacheGhost >>

\* a call of the exported findOrchestrator(directory)
FindOrchestrator ==
    /\ found' = [NotScanned EXCEPT
           !.ran = TRUE,
           !.err = findOrchestrator(directory).err,
           !.sop = findOrchestrator(directory).sop,
           !.files = findOrchestrator(directory).files,
           !.errors = findOrchestrator(directory).errors]
    /\ UNCHANGED << cfgVars, discovered, initialized, run, heldRegistry,
                    registry,
                    orchestratorAgent, currentCorrelationId, calls, tcalls,
                    agentCache, nextAgent, log, cacheGhost >>

NextDiscovery ==
    \/ DiscoverAgents
    \/ FindOrchestrator
    \/ Initialize

SpecDiscovery == InitDiscovery /\ [][NextDiscovery]_vars

\* ------------------------------------------- a request, event by event
\* an Error raised by the engine run itself
EngineError ==
    [kind |-> "Error", id |-> 0, message |-> "engine", agentName |-> "",
     task |-> "", cause |-> 0, origin |-> "engine"]

InitEvents ==
    /\ cfgInput \in [errorMode : {MISSING}, logLevel : {"debug"},
                     showThinking : {MISSING, "true"}]
    /\ directory = MainDirectory
    /\ run \in Runs
    /\ Constructed

\* invoke(request, options) from call to return, the engine producing
\* run.events and then ending or raising
RunInvoke ==
    /\ orchestratorAgent.live
    /\ run.st = "ready"
    /\ LET correlationId == generateCorrelationId
           requestLogger == withCorrelationId(logger, correlationId)
           acc == invokeLoop(run.events, 1,
                             showThinking(run.options, config),
                             requestLogger,
                             [responseText |-> << >>, thinking |-> << >>,
                              toolCalls |-> << >>,
                              log |-> LogWrite(log, requestLogger, "info",
                                               "Processing request", 0, 0)])
       IN /\ currentCorrelationId' = correlationId
          /\ IF run.raises
             THEN /\ run' = [run EXCEPT !.kind = "invoke",
                                        !.st = "rejected",
                                        !.correlationId = correlationId,
                                        !.pulled = Len(run.events),
                                        !.error = EngineError]
                  /\ log' = LogWrite(acc.log, requestLogger, "error",
                                     "Request failed", 0, 0)
             ELSE /\ run' = [run EXCEPT !.kind = "invoke",
                                        !.st = "resolved",
                                        !.correlationId = correlationId,
                                        !.pulled = Len(run.events),
                                        !.result =
                                            invokeReturn(run.options, acc)]
                  /\ log' = LogWrite(acc.log, requestLogger, "info",
                                     "Request completed", 0, 0)
    /\ UNCHANGED << cfgVars, discovered, found, initialized, heldRegistry,
                    registry,
                    orchestratorAgent, calls, tcalls, agentCache, nextAgent,
                    cacheGhost >>

\* the consumer asks the generator returned by stream(request) for its next
\* event: the first request runs the generator up to its first yield
StreamNextBuffering ==
    /\ orchestratorAgent.live
    /\ run.st \in {"ready", "streaming"}
    /\ run.pulled < Len(run.events)
    /\ run' = [run EXCEPT !.kind = "stream", !.st = "streaming",
                          !.pulled = Len(run.events),
                          !.yielded = Append(@, run.events[run.pulled + 1])]
    /\ UNCHANGED << cfgVars, discovered, found, initialized, heldRegistry,
                    registry,
                    orchestratorAgent, calls, tcalls, agentCache, nextAgent,
                    cacheGhost, log, currentCorrelationId >>

StreamNext ==
    /\ orchestratorAgent.live
    /\ run.st \in {"ready", "streaming"}
    /\ LET first == run.st = "ready"
           correlationId == IF first THEN generateCorrelationId
                            ELSE run.correlationId
           requestLogger == withCorrelationId(logger, correlationId)
           log0 == IF first
                   THEN LogWrite(log, requestLogger, "info",
                                 "Streaming request", 0, 0)
                   ELSE log
       IN /\ currentCorrelationId' = IF first THEN correlationId
                                     ELSE currentCorrelationId
          /\ IF run.pulled < Len(run.events)
             THEN /\ run' = [run EXCEPT
                               !.kind = "stream", !.st = "streaming",
                               !.correlationId = correlationId,
                               !.pulled = @ + 1,
                               !.yielded =
                                   Append(@, run.events[run.pulled + 1])]
                  /\ log' = log0
             ELSE IF run.raises
             THEN /\ run' = [run EXCEPT !.kind = "stream",
                                        !.st = "rejected",
                                        !.correlationId = correlationId,
                                        !.error = EngineError]
                  /\ log' = LogWrite(log0, requestLogger, "error",
                                     "Stream failed", 0, 0)
             ELSE /\ run' = [run EXCEPT !.kind = "stream",
                                        !.st = "resolved",
                                        !.correlationId = correlationId]
                  /\ log' = LogWrite(log0, requestLogger, "info",
                                     "Stream completed", 0, 0)
    /\ UNCHANGED << cfgVars, discovered, found, initialized, heldRegistry,
                    registry,
                    orchestratorAgent, calls, tcalls, agentCache, nextAgent,
                    cacheGhost >>

\* the consumer abandons the generator (return() at the pending yield)
StreamAbandon ==
    /\ run.st = "streaming"
    /\ run' = [run EXCEPT !.st = "abandoned"]
    /\ UNCHANGED << cfgVars, discovered, found, initialized, heldRegistry,
                    registry,
                    orchestratorAgent, currentCorrelationId, calls, tcalls,
                    agentCache, nextAgent, log, cacheGhost >>

NextEvents ==
    \/ Initialize
    \/ RunInvoke
    \/ StreamNext
    \/ StreamAbandon

SpecEvents == InitEvents /\ [][NextEvents]_vars

\* ------------------------------------------------ the registry's accessor
\* getRegistry(): new Map(this.registry), a new Map whose values are the
\* registry's own SOPDefinition objects (current: the copy's definitions
\* are the objects of the scan the registry now holds)
getRegistryAliasing(reg) == [ref |-> "internal", current |-> TRUE, val |-> reg]

getRegistry(reg) == [ref |-> "copy", current |-> TRUE, val |-> reg]

\* Map.prototype.delete
MapDelete(m, k) == [x \in (DOMAIN m) \ {k} |-> m[x]]

\* an assignment to a field of a SOPDefinition object
EditedDescription == "edited"

Redescribe(sop) == [sop EXCEPT !.description = EditedDescription]

\* the same assignment as seen through the wrapped tools, whose sop is the
\* registry's object
RedescribeTools(agent, n) ==
    IF agent.live /\ n \in DOMAIN agent.tools
    THEN [agent EXCEPT !.tools[n].sop = Redescribe(@),
                       !.tools[n].original.sop = Redescribe(@)]
    ELSE agent

InitRegistry ==
    /\ cfgInput = [errorMode |-> MISSING, logLevel |-> MISSING,
                   showThinking |-> MISSING]
    /\ directory \in MainDirectories
    /\ run = NoRun
    /\ Constructed

GetRegistry ==
    /\ heldRegistry' = getRegistry(registry)
    /\ UNCHANGED << cfgVars, discovered, found, initialized, run, registry,
                    orchestratorAgent, currentCorrelationId, calls, tcalls,
                    agentCache, nextAgent, log, cacheGhost >>

\* the caller deletes an entry of the Map that getRegistry returned
DeleteFromHeld(n) ==
    /\ heldRegistry.ref # "none"
    /\ n \in DOMAIN heldRegistry.val
    /\ heldRegistry' = [heldRegistry EXCEPT !.val = MapDelete(@, n)]
    /\ registry' = IF heldRegistry.ref = "internal"
                   THEN MapDelete(registry, n) ELSE registry
    /\ UNCHANGED << cfgVars, discovered, found, initialized, run,
                    orchestratorAgent, currentCorrelationId, calls, tcalls,
                    agentCache, nextAgent, log, cacheGhost >>

\* the caller assigns the description of a SOPDefinition it reached through
\* the Map that getRegistry returned: the object is the registry's own
\* unless a later scan replaced the registry's objects
EditHeldDefinition(n) ==
    /\ heldRegistry.ref # "none"
    /\ n \in DOMAIN heldRegistry.val
    /\ heldRegistry.val[n].description # EditedDescription
    /\ heldRegistry' = [heldRegistry EXCEPT !.val[n] = Redescribe(@)]
    /\ IF heldRegistry.current /\ n \in DOMAIN registry
       THEN /\ registry' = [registry EXCEPT ![n] = Redescribe(@)]
            /\ orchestratorAgent' = RedescribeTools(orchestratorAgent, n)
       ELSE UNCHANGED << registry, orchestratorAgent >>
    /\ UNCHANGED << cfgVars, discovered, found, initialized, run,
                    currentCorrelationId, calls, tcalls,
                    agentCache, nextAgent, log, cacheGhost >>

NextRegistry ==
    \/ Initialize
    \/ GetRegistry
    \/ \E n \in AgentNames : DeleteFromHeld(n)
    \/ \E n \in AgentNames : EditHeldDefinition(n)
    \/ ClearCache
    \/ \E kind \in EntryPoints : Invoke(kind)
    \/ \E c \in 1..Len(calls) : EngineComplete(c)

SpecRegistry == InitRegistry /\ [][NextRegistry]_vars

\* -------------------------------------- the exported functions on their own
\* (each behaviour makes one direct call of one exported function)
\* everything but the record of the last direct call
orchestratorVars ==
    << cfgInput, config, held, logger, directory, scanVars, registry,
       orchestratorAgent, currentCorrelationId, calls, tcalls, agentCache,
       nextAgent, log, cacheGhost, processVars >>

InitFunctions ==
    /\ cfgInput = [errorMode |-> MISSING, logLevel |-> MISSING,
                   showThinking |-> MISSING]
    /\ directory = MainDirectory
    /\ run = NoRun
    /\ Constructed

\* the metadata objects handed to validateFrontmatter
FrontmatterData ==
    {[Frontmatter(TRUE, n, d, t) EXCEPT !.inputs = Absent] :
        n \in {MISSING, NULL, NONSTRING, "", BLANK, "alpha"},
        d \in {MISSING, NULL, NONSTRING, BLANK, "desc"},
        t \in {MISSING, NULL, NONSTRING, "agent", "orchestrator", "bogus"}}

NoFrontmatter ==
    [name |-> "", description |-> "", version |-> MISSING, tools |-> Absent,
     inputs |-> Absent, type |-> ""]

\* validateFrontmatter(data, filepath): field is the field of the
\* FrontmatterValidationError thrown, "" when fm is returned
ValidateFrontmatter(data) ==
    /\ applied = NotApplied
    /\ applied' =
         [fn |-> "validateFrontmatter", arg |-> data,
          out |-> [field |-> validateFrontmatterField(data),
                   fm |-> IF validateFrontmatterField(data) = ""
                          THEN validateFrontmatter(data)
                          ELSE NoFrontmatter]]
    /\ UNCHANGED orchestratorVars

\* the files handed to loadSOP: the optional keys present or not, of the
\* expected type or not, under a file name that matches the name or not
LoadContents ==
    {[parse |-> p, name |-> n, description |-> "desc", version |-> v,
      tools |-> t, inputs |-> i, type |-> k, body |-> b, model |-> m] :
        p \in BOOLEAN, n \in {"alpha", BLANK},
        v \in {MISSING, "2.1.0", NONSTRING},
        t \in {Absent, Given(<< >>), Given(<< "search" >>), WrongType},
        i \in {Absent, Given(<< TopicInput >>), WrongType},
        k \in {MISSING, "agent", "orchestrator"},
        b \in {"body", PaddedBody, BLANK},
        m \in {MISSING, "model-a"}}

LoadFiles ==
    {[stem |-> stem, ext |-> ".md", exists |-> e, content |-> c] :
        stem \in {"alpha", "beta"}, e \in BOOLEAN, c \in LoadContents}

\* loadSOP(filepath)
LoadSOP(file) ==
    /\ applied = NotApplied
    /\ applied' = [fn |-> "loadSOP", arg |-> file, out |-> loadSOP(file)]
    /\ UNCHANGED orchestratorVars

\* new OrchestratorImpl({defaultModel}), which calls setDefaultModelSpec,
\* then loadSOP(file) and getOrCreateAgent on the definition loaded, the
\* cache being empty
ModelFiles ==
    {f \in LoadFiles :
        /\ f.exists /\ f.content.parse /\ f.content.name = "alpha"
        /\ f.content.version = MISSING /\ f.content.tools = Absent
        /\ f.content.body = "body"}

DefaultModels == {MISSING, "model-d"}

CreateAgentFor(file, defaultModel) ==
    /\ applied = NotApplied
    /\ applied' = [fn |-> "getOrCreateAgent",
                   arg |-> [file |-> file, defaultModel |-> defaultModel],
                   out |-> agentConfig(loadSOP(file).sop, defaultModel)]
    /\ UNCHANGED orchestratorVars

\* the input definitions of a frontmatter (values << >>: the values key
\* is absent or an empty list; a default, where declared, is of the
\* declared type) and the values a caller passes
Values ==
    {Str("a"), Str("z"), Num("7"), Bool("true"), List(<< "a", "z" >>),
     NumList(<< "7" >>)}

InputDefs ==
    {d \in [name : {"task", "topic"},
            type : {"string", "number", "boolean", "enum", "list", "other"},
            required : {MISSING, "true", "false"},
            default : {Undefined, Str("a"), Num("7"), Bool("true"),
                       List(<< "a", "z" >>)},
            values : {<< >>, << "a", "b" >>}] :
        d.default = Undefined \/ Matches(FieldSchema(d), d.default)}

InputSpecs ==
    {<< >>} \cup {<< d >> : d \in InputDefs}
    \cup {<< d, e >> : d \in {x \in InputDefs : x.name = "task"
                                  /\ x.default = Undefined
                                  /\ x.values = << >>},
                       e \in {TopicInput}}

\* the argument objects: each key absent or holding a value
Arguments ==
    UNION {[keys -> Values] : keys \in SUBSET {"task", "topic"}}

\* generateZodSchema(inputs).safeParse(args)
ParseArguments(inputs, args) ==
    /\ applied = NotApplied
    /\ applied' = [fn |-> "generateZodSchema",
                   arg |-> [inputs |-> inputs, args |-> args],
                   out |-> SafeParse(generateZodSchema(inputs), args)]
    /\ UNCHANGED orchestratorVars

\* the objects handed to buildAgentPrompt, as their entries in property
\* order: any of the keys, each at most once, in any order
PromptKeys == {"task", "topic", "depth"}

PromptValues == {Str("a"), Num("7"), List(<< "a", "z" >>)}

RECURSIVE EntryLists(_)
EntryLists(keys) ==
    {<< >>} \cup
    UNION {{<< [key |-> k, value |-> v] >> \o rest :
                v \in PromptValues, rest \in EntryLists(keys \ {k})} :
           k \in keys}

BuildAgentPrompt(task, inputs) ==
    /\ applied = NotApplied
    /\ applied' = [fn |-> "buildAgentPrompt",
                   arg |-> [task |-> task, inputs |-> inputs],
                   out |-> buildAgentPrompt(task, inputs)]
    /\ UNCHANGED orchestratorVars

\* a logger built by the constructor, then derived and re-levelled step by
\* step, and one entry logged through the result
MaxOps == 2          \* derivations and level changes before the entry

Sinks == {"defaultOutput", "sink"}

LoggerOps ==
    {[op |-> "withCorrelationId", correlationId |-> c, agentName |-> "",
      level |-> ""] : c \in 1..2}
    \cup {[op |-> "withAgent", correlationId |-> 0, agentName |-> a,
           level |-> ""] : a \in AgentNames}
    \cup {[op |-> "setLevel", correlationId |-> 0, agentName |-> "",
           level |-> l] : l \in LogLevels}

RECURSIVE OpLists(_)
OpLists(n) ==
    IF n = 0 THEN {<< >>}
    ELSE OpLists(n - 1)
         \cup {Append(ops, o) : ops \in {l \in OpLists(n - 1) :
                                            Len(l) = n - 1},
                                o \in LoggerOps}

ApplyLoggerOp(lg, o) ==
    CASE o.op = "withCorrelationId" ->
             withCorrelationId(lg, o.correlationId)
      [] o.op = "withAgent" -> withAgent(lg, o.agentName)
      [] o.op = "setLevel" -> setLevel(lg, o.level)

RECURSIVE ApplyLoggerOps(_, _, _)
ApplyLoggerOps(lg, ops, i) ==
    IF i > Len(ops) THEN lg
    ELSE ApplyLoggerOps(ApplyLoggerOp(lg, ops[i]), ops, i + 1)

LogThrough(level, output, ops, emit) ==
    /\ applied = NotApplied
    /\ applied' =
           [fn |-> "log",
            arg |-> [level |-> level, output |-> output, ops |-> ops,
                     emit |-> emit],
            out |-> LoggerLog(
                        ApplyLoggerOps(NewLoggerImpl(level, 0, "", output),
                                       ops, 1),
                        emit, "message")]
    /\ UNCHANGED orchestratorVars

NextFunctions ==
    \/ \E data \in FrontmatterData : ValidateFrontmatter(data)
    \/ \E file \in LoadFiles : LoadSOP(file)
    \/ \E file \in ModelFiles, defaultModel \in DefaultModels :
         CreateAgentFor(file, defaultModel)
    \/ \E inputs \in InputSpecs, args \in Arguments :
         ParseArguments(inputs, args)
    \/ \E task \in Tasks, inputs \in EntryLists(PromptKeys) :
         BuildAgentPrompt(task, inputs)
    \/ \E level \in LogLevels, output \in Sinks, ops \in OpLists(MaxOps),
          emit \in LogLevels :
         LogThrough(level, output, ops, emit)

SpecFunctions == InitFunctions /\ [][NextFunctions]_vars

\* ------------------------------------------ several orchestrators, one process
MaxServed == 2       \* capability calls served per behaviour

\* parseModelSpec(modelSpec, defaultProvider): a known provider prefix before
\* the first "/", else the default provider
parseModelSpec(modelSpec, defaultProvider) ==
    IF modelSpec = "openai/gpt-4o"
    THEN [provider |-> "openai", modelId |-> "gpt-4o"]
    ELSE [provider |-> defaultProvider, modelId |-> modelSpec]

\* the cache-miss branch of getOrCreateAgent up to `new Agent(agentConfig)`:
\* the definition's tools are resolved in toolRegistry, the model comes from
\* sop.model ?? currentDefaultModelSpec, the printer from printerEnabled;
\* createModel throws for the openai provider when its package is missing
NoAgentConfig ==
    [systemPrompt |-> "", tools |-> << >>, printer |-> FALSE,
     model |-> MISSING, provider |-> MISSING, sop |-> NoSOP, for |-> ""]

newAgentConfig(sop, state, installed) ==
    LET modelSpec == agentConfig(sop, state.currentDefaultModelSpec).model
        parsed == parseModelSpec(modelSpec, state.currentDefaultProvider)
    IN IF modelSpec # MISSING /\ parsed.provider = "openai" /\ ~installed
       THEN [threw |-> TRUE, config |-> NoAgentConfig]
       ELSE [threw |-> FALSE,
             config |->
               [systemPrompt |-> agentConfig(
                                     sop, state.currentDefaultModelSpec)
                                     .systemPrompt,
                tools |-> SelectSeq(sop.tools,
                                    LAMBDA n : n \in state.toolRegistry),
                printer |-> state.printerEnabled,
                model |-> IF modelSpec = MISSING THEN MISSING
                          ELSE parsed.modelId,
                provider |-> IF modelSpec = MISSING THEN MISSING
                             ELSE parsed.provider,
                sop |-> sop, for |-> ""]]

\* getOrCreateAgent(sop) on the module state: the agent's identity is its
\* index in the heap; o is the orchestrator whose request is being served
getOrCreateAgentFor(o, sop, state, heap, installed) ==
    LET r == getOrCreateAgent(sop, state.agentCache, Len(heap) + 1)
        c == newAgentConfig(sop, state, installed)
    IN IF ~r.created
       THEN [threw |-> FALSE, agent |-> r.agent, state |-> state,
             heap |-> heap]
       ELSE IF c.threw
       THEN [threw |-> TRUE, agent |-> 0, state |-> state, heap |-> heap]
       ELSE [threw |-> FALSE, agent |-> r.agent,
             state |-> [state EXCEPT !.agentCache = r.cache],
             heap |-> Append(heap, [c.config EXCEPT !.for = o])]

\* the definition files the orchestrators are pointed at
Revised(file) == [file EXCEPT !.content.body = PaddedBody]

WithTools(file) == [file EXCEPT !.content.tools = Given(<< "search" >>)]

\* the successive revisions of the directory: it does not exist, then holds
\* alpha, then a revised alpha and beta, then two coordinators
Revisions ==
    << NoDirectory,
       [exists |-> TRUE, isDir |-> TRUE,
        files |-> << WithTools(FileOf("alpha", "alpha", "agent")) >>],
       [exists |-> TRUE, isDir |-> TRUE,
        files |-> << Revised(FileOf("alpha", "alpha", "agent")),
                     FileOf("beta", "beta", "agent") >>],
       TwoCoordinators >>

RevisionOf(d) == CHOOSE k \in 1..Len(Revisions) : Revisions[k] = d

MaxInit == 2         \* initialize() calls per behaviour

\* the arguments the orchestrators are constructed with
ProcessInputs ==
    {NoInput,
     [NoInput EXCEPT !.errorMode = "continue", !.logLevel = "debug",
                     !.defaultModel = "gpt-4o",
                     !.defaultProvider = "openai",
                     !.tools = {"search"}]}

\* new OrchestratorImpl(input); the process constructs A first
Construct(o, input) ==
    /\ ~instances[o].constructed
    /\ o = "B" => instances["A"].constructed
    /\ LET cfg == ResolvedOrchestratorConfig(input)
       IN /\ instances' = [instances EXCEPT
                 ![o] = [NotConstructed EXCEPT !.constructed = TRUE,
                                               !.input = input,
                                               !.config = cfg]]
          /\ moduleState' = [moduleState EXCEPT
                 !.currentDefaultModelSpec = cfg.defaultModel,
                 !.currentDefaultProvider = cfg.defaultProvider,
                 !.toolRegistry = cfg.tools,
                 !.printerEnabled = (cfg.logLevel = "debug")]
    /\ UNCHANGED << agentHeap, disk, served >>

\* the definition files of the directory are written or replaced
WriteFiles(k) ==
    /\ k > RevisionOf(disk)
    /\ disk' = Revisions[k]
    /\ UNCHANGED << moduleState, agentHeap, instances, served >>

\* o.initialize(): each assignment is kept when a later statement throws;
\* createModelFromSpec throws as in getOrCreateAgent
InitializeOf(o, installed) ==
    /\ instances[o].constructed
    /\ instances["A"].initializations + instances["B"].initializations
           < MaxInit
    /\ LET d == discoverAgents(disk)
           f == findOrchestrator(disk)
           orchestratorModelSpec ==
               IF f.sop.model # MISSING THEN f.sop.model
               ELSE instances[o].config.defaultModel
           modelThrows ==
               /\ orchestratorModelSpec # MISSING
               /\ parseModelSpec(orchestratorModelSpec,
                                 instances[o].config.defaultProvider)
                      .provider = "openai"
               /\ ~installed
       IN instances' = [instances EXCEPT
              ![o].initializations = @ + 1,
              ![o].registry = IF d.err = "" THEN d.registry ELSE @,
              ![o].orchestratorSOP =
                  IF d.err = "" /\ f.err = "" THEN f.sop ELSE @,
              ![o].orchestratorAgent =
                  IF d.err = "" /\ f.err = "" /\ ~modelThrows
                  THEN [live |-> TRUE, systemPrompt |-> f.sop.body,
                        tools |-> wrapToolsWithErrorHandling(
                                      createAllTools(d.registry),
                                      d.registry)]
                  ELSE @]
    /\ UNCHANGED << moduleState, agentHeap, disk, served >>

\* an error thrown while an agent is constructed
ConstructionError ==
    [kind |-> "Error", id |-> 0, message |-> "Cannot find module",
     agentName |-> "", task |-> "", cause |-> 0, origin |-> "construction"]

\* the engine of o calls the wrapped tool a: wrappedInvoke or wrappedStream
\* up to the delegation; getOrCreateAgent is called outside any try block
WrappedCall(o, a, entry, installed) ==
    /\ instances[o].orchestratorAgent.live
    /\ a \in DOMAIN instances[o].orchestratorAgent.tools
    /\ Len(served) < MaxServed
    /\ LET t == instances[o].orchestratorAgent.tools[a]
           r == IF t.hasSop
                THEN getOrCreateAgentFor(o, t.sop, moduleState, agentHeap,
                                         installed)
                ELSE [threw |-> FALSE, agent |-> 0, state |-> moduleState,
                      heap |-> agentHeap]
       IN /\ moduleState' = r.state
          /\ agentHeap' = r.heap
          /\ served' = Append(served,
                 [orch |-> o, agentName |-> a, entry |-> entry, tool |-> t,
                  st |-> IF r.threw THEN "raised" ELSE "delegated",
                  mode |-> instances[o].config.errorMode,
                  agent |-> 0, held |-> NoSOP,
                  error |-> IF r.threw THEN ConstructionError ELSE NoError,
                  result |-> NoResult])
    /\ UNCHANGED << instances, disk >>

\* the callback of the original tool runs its agent to the end: the catch
\* block of wrappedInvoke applies the error mode to what it throws,
\* wrappedStream passes everything on
CallbackRun(i, installed, fails) ==
    /\ served[i].st = "delegated"
    /\ LET o == served[i].orch
           t == served[i].tool
           r == getOrCreateAgentFor(o, t.original.sop, moduleState,
                                    agentHeap, installed)
           originalError == IF r.threw THEN ConstructionError
                            ELSE ToolError(i, "boom")
           c == invokeCatch(instances[o].config.errorMode, t.agentName,
                            "t1", originalError)
       IN /\ moduleState' = r.state
          /\ agentHeap' = r.heap
          /\ served' = [served EXCEPT
                 ![i].agent = r.agent,
                 ![i].held = IF t.agentName \in DOMAIN instances[o].registry
                             THEN instances[o].registry[t.agentName]
                             ELSE NoSOP,
                 ![i].st = IF ~r.threw /\ ~fails THEN "returned"
                           ELSE IF served[i].entry = "stream" THEN "raised"
                           ELSE IF c.raised THEN "raised" ELSE "returned",
                 ![i].error = IF ~r.threw /\ ~fails THEN NoError
                              ELSE IF served[i].entry = "stream"
                              THEN originalError
                              ELSE c.error,
                 ![i].result = IF ~r.threw /\ ~fails THEN TextResult("out")
                               ELSE IF served[i].entry = "stream"
                               THEN NoResult
                               ELSE c.result]
    /\ UNCHANGED << instances, disk >>

processFrame ==
    << cfgInput, config, held, logger, directory, applied, scanVars,
       registry, orchestratorAgent, currentCorrelationId, calls, tcalls,
       agentCache, nextAgent, log, cacheGhost >>

InitProcess == InitFunctions

NextProcess ==
    \/ \E o \in InstanceNames, input \in ProcessInputs :
         Construct(o, input) /\ UNCHANGED processFrame
    \/ \E k \in 1..Len(Revisions) : WriteFiles(k) /\ UNCHANGED processFrame
    \/ \E o \in InstanceNames, installed \in BOOLEAN :
         InitializeOf(o, installed) /\ UNCHANGED processFrame
    \/ \E o \in InstanceNames, a \in AgentNames, entry \in EntryPoints,
          installed \in BOOLEAN :
         WrappedCall(o, a, entry, installed) /\ UNCHANGED processFrame
    \/ \E i \in 1..Len(served), installed \in BOOLEAN, fails \in BOOLEAN :
         CallbackRun(i, installed, fails) /\ UNCHANGED processFrame

SpecProcess == InitProcess /\ [][NextProcess]_vars

\* ------------------------------------------------------------------ claims
\* the capability calls whose underlying agent tool has thrown
Failed == {i \in 1..Len(tcalls) : tcalls[i].failure # NoError}

\* the number of log entries satisfying P
CountLog(P(_)) ==
    LET S == {e \in BagToSet(log) : P(e)}
    IN IF S = {} THEN 0 ELSE BagCardinality([e \in S |-> log[e]])

\* C1: every log entry emitted while servicing a top-level call, the entries
\* of its wrapped capability invocations included, carries the correlation
\* identifier generated for that call, also when calls overlap.
C1_LogCarriesOwnCorrelationId ==
    \A e \in BagToSet(log) :
        e.call # 0 => e.correlationId = calls[e.call].correlationId

\* C2: in continue mode no capability failure makes the top-level call
\* reject, whichever entry point the engine used.
C2_ContinueNeverRejects ==
    config.errorMode = "continue" =>
        \A c \in 1..Len(calls) :
            ~(calls[c].st = "rejected" /\ calls[c].error.origin = "tool")

C4_ContinueReturnsPayload ==
    config.errorMode = "continue" =>
        \A i \in Failed :
            tcalls[i].entry = "invoke" =>
                /\ tcalls[i].st = "returned"
                /\ tcalls[i].error = NoError
                /\ tcalls[i].result.json
                /\ tcalls[i].result.success = FALSE
                /\ tcalls[i].result.agentName = tcalls[i].agentName
                /\ tcalls[i].result.message = tcalls[i].failure.message
                /\ tcalls[i].result.code = "AGENT_INVOCATION_ERROR"
                /\ CountLog(LAMBDA e : e.tcall = i /\ e.level = "error") = 1
                /\ CountLog(LAMBDA e : /\ e.tcall = i /\ e.level = "error"
                                       /\ e.agentName = tcalls[i].agentName)
                       = 1

C4_Witness ==
    /\ config.errorMode = "continue"
    /\ \E i \in Failed :
           /\ tcalls[i].entry = "invoke"
           /\ tcalls[i].result.json
           /\ calls[tcalls[i].call].st = "resolved"

\* C9: the error mode chosen at construction (fail-fast when unspecified)
\* is the one in force for the orchestrator's whole lifetime and the one the
\* wrapper applies to every failure it handles, whatever initialize, invoke,
\* stream and clearCache calls were made and whatever the caller did to an
\* object the config getter returned.
C9_ErrorModeFixed ==
    LET chosen == IF cfgInput.errorMode = MISSING THEN "fail-fast"
                  ELSE cfgInput.errorMode
    IN /\ config.errorMode = chosen
       /\ \A i \in Failed :
              tcalls[i].entry = "invoke" =>
                  /\ tcalls[i].mode = chosen
                  /\ (tcalls[i].st = "raised") = (chosen = "fail-fast")

C9_Witness ==
    \E i \in Failed :
        /\ tcalls[i].entry = "invoke"
        /\ tcalls[i].heldMode # ""
        /\ tcalls[i].heldMode # tcalls[i].mode
        /\ agentCache = EmptyCache
        /\ tcalls[i].agent # 0

\* the agent instances of name n that are live: cached, or still executing
\* an invocation
Live(n) ==
    (IF n \in DOMAIN agentCache THEN {agentCache[n]} ELSE {})
    \cup {tcalls[i].agent : i \in {j \in 1..Len(tcalls) :
                                     /\ tcalls[j].st = "executing"
                                     /\ ToolOf(j).original.sop.name = n}}

\* C5: at every point of every interleaving of getOrCreateAgent, clearCache
\* and capability invocations at most one live agent instance exists per
\* Definition name, an instance being live while it is cached or executing.
C5_OneLiveInstancePerName ==
    \A n \in AgentNames : Cardinality(Live(n)) <= 1

\* C5, amended: the instances that clearCache removed from the cache while
\* they were still executing aside, at most one live instance exists per
\* name: every executing invocation runs on the instance cached under its
\* name.
C5_OneLiveInstanceUnlessEvicted ==
    /\ \A n \in AgentNames : Cardinality(Live(n) \ evicted) <= 1
    /\ \A i \in 1..Len(tcalls) :
           (tcalls[i].st = "executing" /\ tcalls[i].agent \notin evicted) =>
               LET n == ToolOf(i).original.sop.name
               IN n \in DOMAIN agentCache /\ agentCache[n] = tcalls[i].agent

C5_Witness ==
    \E i \in 1..Len(tcalls) :
        /\ tcalls[i].st = "executing"
        /\ evicted # {}
        /\ tcalls[i].agent \notin evicted
        /\ Live(tcalls[i].agentName) = {tcalls[i].agent}

\* C6: k >= 1 calls of getOrCreateAgent(d) with no clearCache between them
\* all return the identical instance and only the first call constructs
\* one; for Definitions of different names the instances differ.
C6_CacheIdempotent ==
    /\ \A n \in AgentNames :
           /\ Cardinality(returned[n]) <= 1
           /\ built[n] <= 1
           /\ returnCalls[n] >= 1 => built[n] = 1 /\ returned[n] # {}
    /\ \A n, m \in AgentNames : n # m => returned[n] \cap returned[m] = {}

C6_Witness ==
    /\ returnCalls["alpha"] = 2
    /\ returnCalls["beta"] >= 1
    /\ Cardinality(returned["alpha"] \cup returned["beta"]) = 2

\* C7: after clearCache the cache is empty, and the next getOrCreateAgent(d)
\* constructs and returns a new instance, distinct from every instance
\* returned before the clear.
C7_ClearThenFresh ==
    /\ [][ClearCache => agentCache' = EmptyCache]_vars
    /\ [](\A n \in AgentNames :
              /\ returned[n] \cap returnedBefore = {}
              /\ returnCalls[n] >= 1 => built[n] >= 1)

C7_Witness ==
    /\ returnedBefore # {}
    /\ \E n \in AgentNames :
           /\ returnCalls[n] >= 1
           /\ n \in DOMAIN agentCache
           /\ agentCache[n] \in returned[n]
           /\ agentCache[n] \notin returnedBefore

\* the steps that call getOrCreateAgent
UsesAgent ==
    \/ \E sop \in KnownSOPs : GetOrCreateAgent(sop)
    \/ \E c \in 1..Len(calls) :
         \E a \in DOMAIN calls[c].agent.tools, entry \in EntryPoints,
            task \in Tasks : EngineCallTool(c, a, entry, task)
    \/ \E i \in 1..Len(tcalls) : ToolCallbackBegin(i)

\* C8: a cache entry is created only by the first use of a name and is
\* removed or replaced only by clearCache: initialize and re-initialization,
\* invoke, stream and capability failures in either error mode leave every
\* existing entry unchanged, and initialize creates no entry.
C8_CacheFrame ==
    [][ \/ agentCache' = agentCache
        \/ ClearCache
        \/ /\ UsesAgent
           /\ \A n \in DOMAIN agentCache :
                  n \in DOMAIN agentCache' /\ agentCache'[n] = agentCache[n]
           /\ Cardinality(DOMAIN agentCache' \ DOMAIN agentCache) = 1 ]_vars

C8_Witness ==
    /\ orchestratorAgent.live
    /\ \E i \in Failed :
           /\ tcalls[i].agentName \in DOMAIN agentCache
           /\ agentCache[tcalls[i].agentName] = tcalls[i].agent
           /\ calls[tcalls[i].call].st = "rejected"

\* ------------------------------------------------------- claims: discovery
\* the definition files of the scanned directory that load, by kind
Loadable(kind) ==
    {i \in 1..Len(mdFiles(directory.files)) :
        /\ loadSOP(mdFiles(directory.files)[i]).err = ""
        /\ loadSOP(mdFiles(directory.files)[i]).sop.type = kind}

DeclaredName(i) == loadSOP(mdFiles(directory.files)[i]).sop.name

\* the loadable files of the directory declare pairwise distinct names
DistinctNames ==
    \A i, j \in Loadable("agent") \cup Loadable("orchestrator") :
        i # j => DeclaredName(i) # DeclaredName(j)

RegistryOfAgents ==
    /\ Cardinality(DOMAIN discovered.registry)
           = Cardinality(Loadable("agent"))
    /\ \A k \in DOMAIN discovered.registry :
           /\ discovered.registry[k].name = k
           /\ discovered.registry[k].type = "agent"
           /\ \A i \in Loadable("orchestrator") : DeclaredName(i) # k

\* C10: for any directory holding N loadable agent-kind definition files and
\* M loadable coordinator-kind files, discoverAgents returns a registry of
\* exactly N entries, each keyed by its own name and of kind agent, and no
\* key equals the name of a coordinator-kind Definition of the directory.
C10_RegistryHasNEntries ==
    (discovered.ran /\ discovered.err = "") => RegistryOfAgents

\* C10, amended: the same, for the directories whose loadable definition
\* files declare pairwise distinct names.
C10_RegistryHasNEntriesDistinctNames ==
    (discovered.ran /\ discovered.err = "" /\ DistinctNames) =>
        RegistryOfAgents

C10_Witness ==
    /\ discovered.ran
    /\ discovered.err = ""
    /\ DistinctNames
    /\ Cardinality(Loadable("agent")) = 2
    /\ Cardinality(Loadable("orchestrator")) = 1
    /\ Cardinality(DOMAIN discovered.registry) = 2

AgentsOnly ==
    /\ directory.exists /\ directory.isDir
    /\ Loadable("agent") # {}
    /\ Loadable("orchestrator") = {}

FailingFiles ==
    {i \in 1..Len(mdFiles(directory.files)) :
        loadSOP(mdFiles(directory.files)[i]).err # ""}

\* C13: for any directory holding K loadable agent-kind files with distinct
\* names plus any number of files that fail to load, discoverAgents does not
\* fail, returns a registry containing all K agents, and logs exactly one
\* error entry per failing file, naming that file's path.
C13_DiscoveryResilient ==
    (/\ discovered.ran
     /\ directory.exists /\ directory.isDir
     /\ \A i, j \in Loadable("agent") :
            i # j => DeclaredName(i) # DeclaredName(j)) =>
        /\ discovered.err = ""
        /\ \A i \in Loadable("agent") :
              /\ DeclaredName(i) \in DOMAIN discovered.registry
              /\ discovered.registry[DeclaredName(i)]
                     = loadSOP(mdFiles(directory.files)[i]).sop
        /\ Cardinality(DOMAIN discovered.registry)
               >= Cardinality(Loadable("agent"))
        /\ Len(discovered.errors) = Cardinality(FailingFiles)
        /\ {discovered.errors[k] : k \in 1..Len(discovered.errors)}
               = {mdFiles(directory.files)[i].stem : i \in FailingFiles}

C13_Witness ==
    /\ discovered.ran
    /\ Cardinality(Loadable("agent")) = 2
    /\ Cardinality(FailingFiles) = 1
    /\ 1 \in FailingFiles
    /\ Cardinality(DOMAIN discovered.registry) = 2
    /\ Len(discovered.errors) = 1

\* C14: invoke or stream on an orchestrator whose initialize has never
\* completed successfully (never called, or every call failed) fails with
\* the 'Orchestrator not initialized' error without generating a correlation
\* identifier, emitting a log entry or starting an engine run.
C14_UninitializedRejects ==
    /\ [](orchestratorAgent.live
             <=> (initialized.ran /\ initialized.err = ""))
    /\ [][(/\ ~(initialized.ran /\ initialized.err = "")
            /\ Len(calls') = Len(calls) + 1) =>
               /\ calls'[Len(calls')].st = "rejected"
               /\ calls'[Len(calls')].error = NotInitializedError
               /\ calls'[Len(calls')].correlationId = 0
               /\ currentCorrelationId' = currentCorrelationId
               /\ log' = log
               /\ tcalls' = tcalls]_vars
    /\ [](\A i \in 1..Len(tcalls) :
             calls[tcalls[i].call].error # NotInitializedError)
    /\ [](\A e \in BagToSet(log) :
             e.call # 0 => calls[e.call].error # NotInitializedError)

C14_Witness ==
    /\ initialized.ran
    /\ initialized.err = "MultipleOrchestratorsError"
    /\ registry # EmptyMap
    /\ \E c \in 1..Len(calls) :
           /\ calls[c].kind = "stream"
           /\ calls[c].error = NotInitializedError

\* C15: each invoke or stream call starts exactly one engine run, and each
\* capability call issued by the engine causes exactly one invocation of the
\* underlying agent tool, whatever the error mode and whether the invocation
\* succeeds or fails: nothing is retried.
C15_NoRetry ==
    /\ \A c \in 1..Len(calls) :
           calls[c].runs = IF calls[c].error = NotInitializedError THEN 0
                           ELSE 1
    /\ \A i \in 1..Len(tcalls) :
           /\ tcalls[i].invocations <= 1
           /\ tcalls[i].st # "delegated" => tcalls[i].invocations = 1

C15_Witness ==
    \E i, j \in 1..Len(tcalls) :
        /\ i # j
        /\ tcalls[i].call = tcalls[j].call
        /\ tcalls[i].failure # NoError
        /\ tcalls[i].st = "returned"
        /\ tcalls[j].failure = NoError
        /\ tcalls[j].st = "returned"
        /\ calls[tcalls[i].call].st = "resolved"

\* the entries logged for top-level call c itself whose message is in msgs
RequestEntries(c, msgs) ==
    CountLog(LAMBDA e : e.call = c /\ e.tcall = 0 /\ e.message \in msgs)

StartMessages == {"Processing request", "Streaming request"}
CompletionMessages == {"Request completed", "Stream completed"}
FailureMessages == {"Request failed", "Stream failed"}

\* the terminal entries of call c and the error it raises
TerminalEntries(c, completions) ==
    /\ calls[c].st = "running" =>
          /\ RequestEntries(c, CompletionMessages) = 0
          /\ RequestEntries(c, FailureMessages) = 0
    /\ calls[c].st = "resolved" =>
          /\ RequestEntries(c, CompletionMessages) = completions
          /\ RequestEntries(c, FailureMessages) = 0
    /\ calls[c].st = "rejected" =>
          /\ RequestEntries(c, CompletionMessages) = 0
          /\ RequestEntries(c, FailureMessages) = 1
          /\ CountLog(LAMBDA e : /\ e.call = c /\ e.tcall = 0
                                 /\ e.level = "error"
                                 /\ e.correlationId = calls[c].correlationId)
                 = 1
          /\ \E i \in 1..Len(tcalls) :
                /\ tcalls[i].call = c
                /\ tcalls[i].st = "raised"
                /\ calls[c].error = tcalls[i].error

\* C16: every invoke call that reaches the engine logs a start entry first
\* and then exactly one terminal entry: a completion entry if it resolves,
\* or a failure entry with the error if it rejects, the error raised to the
\* caller being the very error the engine run raised; the same holds for a
\* stream call consumed to its end.
C16_StartThenOneTerminal ==
    \A c \in 1..Len(calls) :
        calls[c].error # NotInitializedError =>
            /\ RequestEntries(c, StartMessages) = 1
            /\ TerminalEntries(c, 1)

\* C16, amended: the same for the entries the configured log level admits:
\* the start and completion entries are info entries and are emitted only
\* when the level is debug or info; the failure entry is always emitted.
C16_StartThenOneTerminalAtLevel ==
    \A c \in 1..Len(calls) :
        calls[c].error # NotInitializedError =>
            LET n == IF config.logLevel \in {"debug", "info"} THEN 1 ELSE 0
            IN /\ RequestEntries(c, StartMessages) = n
               /\ TerminalEntries(c, n)

C16_Witness ==
    \E c, d \in 1..Len(calls) :
        /\ calls[c].st = "rejected"
        /\ calls[c].error.origin = "tool"
        /\ RequestEntries(c, StartMessages) = 1
        /\ RequestEntries(c, FailureMessages) = 1
        /\ calls[d].st = "resolved"
        /\ calls[d].kind = "stream"
        /\ RequestEntries(d, CompletionMessages) = 1

\* -------------------------------------------------- claims: engine events
\* the concatenation of a sequence of sequences
RECURSIVE Flatten(_)
Flatten(ss) ==
    IF ss = << >> THEN << >>
    ELSE Flatten(SubSeq(ss, 1, Len(ss) - 1)) \o ss[Len(ss)]

\* the events of the run of the given type, in arrival order
EventsOfType(type) == SelectSeq(run.events, LAMBDA e : e.type = type)

DeltaTexts(type) ==
    [k \in 1..Len(EventsOfType(type)) |-> EventsOfType(type)[k].text]

AnnouncedTools ==
    Flatten([k \in 1..Len(EventsOfType("beforeToolsEvent")) |->
                EventsOfType("beforeToolsEvent")[k].names])

\* whether showThinking is in effect for the call of the run
ThinkingInEffect ==
    IF run.options.given /\ run.options.showThinking # MISSING
    THEN run.options.showThinking = "true"
    ELSE cfgInput.showThinking = "true"

\* C17: invoke returns as its text the concatenation, in arrival order, of
\* the text of every text-delta event of the engine run; called with options
\* it also returns the tool calls the engine announced, in order (omitted
\* when there are none), and the reasoning fragments only when showThinking
\* is in effect (the per-call option overriding the configured default);
\* called without options it returns the text alone.
C17_InvokeReturnsTextAndTrace ==
    (run.kind = "invoke" /\ run.st = "resolved") =>
        /\ run.result.response = Flatten(DeltaTexts("textDelta"))
        /\ run.options.given =>
              /\ run.result.shape = "InvokeResult"
              /\ run.result.toolCalls = AnnouncedTools
              /\ run.result.hasToolCalls <=> (AnnouncedTools # << >>)
              /\ ThinkingInEffect =>
                    /\ run.result.thinking = DeltaTexts("thinkingDelta")
                    /\ run.result.hasThinking
                           <=> (DeltaTexts("thinkingDelta") # << >>)
              /\ ~ThinkingInEffect => ~run.result.hasThinking
        /\ ~run.options.given =>
              /\ run.result.shape = "string"
              /\ ~run.result.hasThinking
              /\ ~run.result.hasToolCalls

C17_Witness ==
    /\ run.kind = "invoke"
    /\ run.st = "resolved"
    /\ run.options.given
    /\ run.options.showThinking = "false"
    /\ cfgInput.showThinking = "true"
    /\ run.result.response = << "b", "a" >>
    /\ run.result.toolCalls = << "agent_beta", "agent_alpha" >>
    /\ ~run.result.hasThinking

\* C18: stream yields every event of the engine run exactly once, unchanged
\* and in the engine's order, and then ends; it never replays or restarts,
\* and once the consumer abandons the sequence no further engine events are
\* pulled.
C18_StreamForwardOnly ==
    /\ [](run.kind = "stream" =>
             /\ run.pulled = Len(run.yielded)
             /\ run.pulled <= Len(run.events)
             /\ run.yielded = SubSeq(run.events, 1, run.pulled)
             /\ run.st \in {"resolved", "rejected"} =>
                    run.yielded = run.events)
    /\ [][run.kind = "stream" =>
             /\ run'.kind = "stream"
             /\ Len(run'.yielded) \in {Len(run.yielded), Len(run.yielded) + 1}
             /\ SubSeq(run'.yielded, 1, Len(run.yielded)) = run.yielded
             /\ run.st \in {"abandoned", "resolved", "rejected"} =>
                    (run' = run /\ log' = log)]_vars

C18_Witness ==
    /\ run.kind = "stream"
    /\ run.st = "abandoned"
    /\ Len(run.events) = 3
    /\ run.pulled = 2
    /\ run.yielded = SubSeq(run.events, 1, 2)
    /\ run.events[1] # run.events[2]

EditsHeldDefinition == \E n \in AgentNames : EditHeldDefinition(n)

C20_OneWrappedToolPerEntry ==
    orchestratorAgent.live =>
        /\ DOMAIN orchestratorAgent.tools = DOMAIN registry
        /\ \A n \in DOMAIN registry :
             LET t == orchestratorAgent.tools[n]
             IN /\ Joined(t.name) = "agent_" \o registry[n].name
                /\ t.description = registry[n].description
                /\ t.inputSchema = registry[n].zodSchema
                /\ t.original.sop = registry[n]
                /\ t.agentName = n
                /\ t.hasSop
                /\ t.sop = registry[n]

\* initialize has run on a directory that defines alpha, agent_alpha and
\* beta (whose validator has a field of its own)
C20_Witness ==
    /\ orchestratorAgent.live
    /\ DOMAIN registry = {"alpha", "agent_alpha", "beta"}
    /\ orchestratorAgent.tools["agent_alpha"].name
         = << "agent_", "agent_", "alpha" >>
    /\ DOMAIN orchestratorAgent.tools["beta"].inputSchema = {"task", "topic"}

\* ------------------------------------------------------- claims: the loader
\* C21: validateFrontmatter fails, naming the offending field, when name is
\* missing, not a string or blank after trimming, when description is, or
\* when type is present and neither agent nor orchestrator; of several
\* invalid fields the first in the order name, description, type is named;
\* valid metadata without a type yields type agent
BlankStrings == {"", BLANK}

InvalidText(x) == x \in {MISSING, NULL, NONSTRING} \cup BlankStrings

C21_ValidationNamesFirstInvalidField ==
    applied.fn = "validateFrontmatter" =>
        LET data == applied.arg
            expected ==
                IF InvalidText(data.name) THEN "name"
                ELSE IF InvalidText(data.description) THEN "description"
                ELSE IF data.type \notin {MISSING, "agent", "orchestrator"}
                THEN "type"
                ELSE ""
        IN /\ applied.out.field = expected
           /\ (expected = "" /\ data.type = MISSING) =>
                  applied.out.fm.type = "agent"
           /\ (expected = "" /\ data.type # MISSING) =>
                  applied.out.fm.type = data.type

\* metadata in which all three fields are invalid, the name being blank
C21_Witness ==
    /\ applied.fn = "validateFrontmatter"
    /\ applied.arg.name = BLANK
    /\ applied.arg.description = MISSING
    /\ applied.arg.type = "bogus"
    /\ applied.out.field = "name"

\* C22: for valid metadata and a body, loadSOP returns a definition whose
\* body is the content after the header without leading and trailing
\* whitespace and whose name, description, version, type, tools and inputs
\* are the values written, the defaults 1.0.0, agent, no tools and no
\* inputs standing in only for fields the metadata does not have
WellTyped(data) ==
    /\ data.parse
    /\ ~InvalidText(data.name)
    /\ ~InvalidText(data.description)
    /\ data.type \in {MISSING, "agent", "orchestrator"}
    /\ data.version # NONSTRING
    /\ data.tools # WrongType
    /\ data.inputs # WrongType

Trimmed(body) ==
    CASE body = PaddedBody -> "# Steps do it"
      [] body = BLANK -> ""
      [] OTHER -> body

C23_DeclaredModelIsUsed ==
    applied.fn = "getOrCreateAgent" =>
        LET declared == applied.arg.file.content.model
            default == applied.arg.defaultModel
        IN applied.out.model =
              IF declared # MISSING THEN declared
              ELSE IF default # MISSING THEN default
              ELSE MISSING

\* ---------------------------------------------------- claims: the validator
\* C24: whatever the input spec, also one that declares a field named task,
\* the validator requires a string-valued task: arguments without task or
\* with a task that is not a string are rejected
C24_TaskIsARequiredString ==
    applied.fn = "generateZodSchema" =>
        LET args == applied.arg.args
            stringTask == "task" \in DOMAIN args /\ args["task"].t = "string"
        IN /\ ~stringTask => ~applied.out.success
           /\ stringTask => "task" \notin applied.out.issues

\* C25: for every declared field, leaving the field out is rejected when it
\* has no default and required is not explicitly false, and accepted when
\* required is explicitly false; whenever a default is declared, arguments
\* that leave the field out yield the declared default for it, also when
\* required is false
DeclaredFields == {applied.arg.inputs[i] : i \in 1..Len(applied.arg.inputs)}

C25_OmissionFollowsRequiredAndDefault ==
    applied.fn = "generateZodSchema" =>
        \A d \in DeclaredFields :
            d.name \notin DOMAIN applied.arg.args =>
                /\ (d.default = Undefined /\ d.required # "false") =>
                       d.name \in applied.out.issues
                /\ d.required = "false" => d.name \notin applied.out.issues
                /\ d.default # Undefined =>
                       /\ d.name \notin applied.out.issues
                       /\ applied.out.success =>
                            /\ d.name \in DOMAIN applied.out.data
                            /\ applied.out.data[d.name] = d.default

\* C26: for each input kind the validator accepts a value of the matching
\* kind and, for a required field, rejects a value of another kind; an enum
\* field accepts exactly the declared values, and an enum whose values are
\* missing or empty accepts any string
InputKinds == {"string", "number", "boolean", "enum", "list"}

OfKind(d, value) ==
    CASE d.type = "string" -> value.t = "string"
      [] d.type = "number" -> value.t = "number"
      [] d.type = "boolean" -> value.t = "boolean"
      [] d.type = "list" -> value.t = "list"
      [] d.type = "enum" ->
           /\ value.t = "string"
           /\ d.values # << >> =>
                \E i \in 1..Len(d.values) : d.values[i] = value.v[1]

C26_ValidatorTypesEachKind ==
    applied.fn = "generateZodSchema" =>
        \A d \in DeclaredFields :
            (d.type \in InputKinds /\ d.name \in DOMAIN applied.arg.args) =>
                LET value == applied.arg.args[d.name]
                IN /\ OfKind(d, value) => d.name \notin applied.out.issues
                   /\ (~OfKind(d, value) /\ d.required # "false") =>
                          d.name \in applied.out.issues

\* an enum field with declared values was given a string that is not among
\* them and the arguments were rejected for it; the task was accepted
C26_Witness ==
    /\ applied.fn = "generateZodSchema"
    /\ \E d \in DeclaredFields :
         /\ d.name = "topic" /\ d.type = "enum" /\ d.values = << "a", "b" >>
         /\ "topic" \in DOMAIN applied.arg.args
         /\ applied.arg.args["topic"] = Str("z")
    /\ applied.out.issues = {"topic"}

\* ------------------------------------------------------- claims: the prompt
\* C27: buildAgentPrompt returns the task section alone when inputs has no
\* key but task; otherwise the task section followed by an Input Parameters
\* section with exactly one line "- key: <JSON of the value>" for each
\* supplied key other than task, in the supplied order, and never a line for
\* the key task
JSONText(value) ==
    CASE value = Str("a") -> "\"a\""
      [] value = Num("7") -> "7"
      [] value = List(<< "a", "z" >>) -> "[\"a\",\"z\"]"

RECURSIVE ParameterLines(_)
ParameterLines(entries) ==
    IF entries = << >> THEN << >>
    ELSE IF Head(entries).key = "task" THEN ParameterLines(Tail(entries))
    ELSE << "- " \o Head(entries).key \o ": "
                 \o JSONText(Head(entries).value) >>
         \o ParameterLines(Tail(entries))

C27_PromptListsSuppliedInputs ==
    applied.fn = "buildAgentPrompt" =>
        LET taskSection == << "## Task", applied.arg.task >>
            lines == ParameterLines(applied.arg.inputs)
        IN applied.out =
             IF lines = << >> THEN taskSection
             ELSE taskSection \o << "", "## Input Parameters" >> \o lines

\* a call whose inputs hold depth, task and topic in that order
C27_Witness ==
    /\ applied.fn = "buildAgentPrompt"
    /\ Len(applied.arg.inputs) = 3
    /\ applied.arg.inputs[1].key = "depth"
    /\ applied.arg.inputs[2].key = "task"
    /\ applied.arg.inputs[3] = [key |-> "topic", value |-> List(<< "a", "z" >>)]
    /\ Len(applied.out) = 6
    /\ applied.out[6] = "- topic: [\"a\",\"z\"]"

\* the cases in which discovery fails for the scanned directory
NotADirectory == ~directory.exists \/ ~directory.isDir

SeveralOrchestrators ==
    /\ ~NotADirectory
    /\ Cardinality(Loadable("orchestrator")) >= 2

\* C28: whenever discovery fails, initialize rejects with the discovery
\* error itself: DirectoryNotFoundError when the configured path does not
\* exist or is not a directory, MultipleOrchestratorsError when two or more
\* orchestrator-type definitions load; it scans once and holds no engine
\* session afterwards.
C28_DiscoveryErrorsPropagate ==
    initialized.ran =>
        /\ initialized.scans = 1
        /\ NotADirectory =>
              /\ initialized.err = "DirectoryNotFoundError"
              /\ initialized.err = discoverAgents(directory).err
              /\ ~orchestratorAgent.live
        /\ SeveralOrchestrators =>
              /\ initialized.err = "MultipleOrchestratorsError"
              /\ initialized.err = findOrchestrator(directory).err
              /\ ~orchestratorAgent.live

C28_Witness ==
    /\ SeveralOrchestrators
    /\ initialized.ran
    /\ initialized.err = "MultipleOrchestratorsError"
    /\ found.ran
    /\ found.err = initialized.err
    /\ ~orchestratorAgent.live

\* the scan returned an empty registry for an existing directory
EmptyResult ==
    /\ discovered.ran
    /\ discovered.err = ""
    /\ discovered.registry = EmptyMap

Matching(file) == [file EXCEPT !.stem = file.content.name]

\* the loaded file declares a name other than its file name stem
NameMismatch ==
    /\ applied.fn = "loadSOP"
    /\ applied.arg.exists
    /\ applied.arg.content.name # Basename(applied.arg)

\* C30: a declared name that differs from the file name stem never fails
\* loading: loadSOP ends as it does for the same file under the declared
\* name, and when that load succeeds it returns the definition with the
\* declared name, which is also its key in the registry, and emits exactly
\* one warning.
C30_NameMismatchOnlyWarns ==
    NameMismatch =>
        /\ applied.out.err = loadSOP(Matching(applied.arg)).err
        /\ applied.out.err = "" =>
              /\ applied.out.sop.name = applied.arg.content.name
              /\ applied.out.sop =
                     [loadSOP(Matching(applied.arg)).sop
                         EXCEPT !.filepath = applied.out.sop.filepath]
              /\ applied.out.warnings = 1
              /\ loadSOP(Matching(applied.arg)).warnings = 0
              /\ applied.out.sop.type # "orchestrator" =>
                     DOMAIN discoverLoop(<< applied.arg >>, 1, EmptyMap,
                                         << >>).registry
                         = {applied.arg.content.name}

C30_Witness ==
    /\ NameMismatch
    /\ applied.arg.stem = "beta"
    /\ applied.out.err = ""
    /\ applied.out.sop.name = "alpha"
    /\ applied.out.sop.type = "agent"
    /\ applied.out.warnings = 1

\* the steps of kind op among the steps applied before the entry was logged
StepsOf(op) ==
    {i \in 1..Len(applied.arg.ops) : applied.arg.ops[i].op = op}

LastStepOf(op) ==
    applied.arg.ops[CHOOSE i \in StepsOf(op) : \A j \in StepsOf(op) : j <= i]

\* the level in force: the last one set, else the constructor's
LevelInForce ==
    IF StepsOf("setLevel") = {} THEN applied.arg.level
    ELSE LastStepOf("setLevel").level

LevelRank(l) ==
    CASE l = "debug" -> 1 [] l = "info" -> 2 [] l = "warn" -> 3
      [] l = "error" -> 4

\* C31: a logger emits an entry exactly when the entry's level is at or
\* above the configured level in the order debug < info < warn < error; a
\* logger derived with withCorrelationId or withAgent keeps its parent's
\* level, output sink and other context field, and every entry it emits
\* carries the derived correlation identifier and agent name.
C31_LoggerFiltersAndKeepsContext ==
    applied.fn = "log" =>
        /\ applied.out.emitted <=>
               LevelRank(applied.arg.emit) >= LevelRank(LevelInForce)
        /\ applied.out.emitted =>
              /\ applied.out.sink = applied.arg.output
              /\ applied.out.entry.level = applied.arg.emit
              /\ applied.out.entry.correlationId =
                     IF StepsOf("withCorrelationId") = {} THEN 0
                     ELSE LastStepOf("withCorrelationId").correlationId
              /\ applied.out.entry.agentName =
                     IF StepsOf("withAgent") = {} THEN ""
                     ELSE LastStepOf("withAgent").agentName

C31_Witness ==
    /\ applied.fn = "log"
    /\ applied.arg.level = "warn"
    /\ applied.arg.output = "sink"
    /\ Len(applied.arg.ops) = 2
    /\ applied.arg.ops[1].op = "withCorrelationId"
    /\ applied.arg.ops[2].op = "withAgent"
    /\ applied.arg.emit = "error"
    /\ applied.out.emitted
    /\ applied.out.sink = "sink"
    /\ applied.out.entry.correlationId = 2
    /\ applied.out.entry.agentName = "beta"

\* two capability calls that the engine of one request has in progress at
\* the same time on the same definition name
Concurrent(i, j) ==
    /\ i # j
    /\ tcalls[i].call = tcalls[j].call
    /\ tcalls[i].agentName = tcalls[j].agentName
    /\ tcalls[i].st = "executing"
    /\ tcalls[j].st \in {"delegated", "executing"}

\* C32: capability calls that the engine issues concurrently for one
\* definition name within one session run on the single instance cached
\* for that name, no second instance being constructed (a clearCache by the
\* caller in between aside), and none of them is made to wait for another:
\* a call that was delegated can start while the other is executing.
C32_ConcurrentCallsShareInstance ==
    \A i, j \in 1..Len(tcalls) :
        Concurrent(i, j) =>
            /\ tcalls[j].st = "executing"
                   /\ tcalls[i].agent \notin evicted
                   /\ tcalls[j].agent \notin evicted
                   => /\ tcalls[i].agent = tcalls[j].agent
                      /\ agentCache[tcalls[i].agentName] = tcalls[i].agent
            /\ evicted = {} => built[tcalls[i].agentName] = 1
            /\ tcalls[j].st = "delegated"
                   /\ tcalls[j].agentName \in DOMAIN agentCache
                   => ENABLED ToolCallbackBegin(j)

C32_Witness ==
    \E i, j \in 1..Len(tcalls) :
        /\ Concurrent(i, j)
        /\ tcalls[j].st = "executing"
        /\ tcalls[i].agent = tcalls[j].agent
        /\ built[tcalls[i].agentName] = 1
        /\ evicted = {}

\* the orchestrators that hold an engine session
WithSession == {o \in InstanceNames : instances[o].orchestratorAgent.live}

\* C33: after any sequence of initialize calls on one orchestrator,
\* successful or failed, the capability set of the engine session that
\* invoke and stream will use corresponds exactly to the registry that
\* getRegistry returns, one agent_<name> capability per registry key, and
\* the session's operating instructions are those of the coordinator
\* definition resolved by the same initialize call.
C33_SessionMatchesRegistry ==
    \A o \in WithSession :
        LET session == instances[o].orchestratorAgent
            reg == getRegistry(instances[o].registry).val
        IN /\ DOMAIN session.tools = DOMAIN reg
           /\ \A n \in DOMAIN reg :
                  /\ session.tools[n].name = ToolName(n)
                  /\ session.tools[n].description = reg[n].description
           /\ session.systemPrompt = instances[o].orchestratorSOP.body

\* the capability calls whose callback has run an agent
Executed == {i \in 1..Len(served) : served[i].agent # 0}

\* C34: whenever a capability call is served, the agent instance that
\* executes it was constructed from the definition (instruction body, tool
\* references, model) that the calling orchestrator's registry holds under
\* that name at that time, also after a re-initialization over changed
\* definition files and with several orchestrators in one process.
C34_AgentBuiltFromHeldDefinition ==
    \A i \in Executed :
        /\ agentHeap[served[i].agent].systemPrompt = served[i].held.body
        /\ agentHeap[served[i].agent].sop.tools = served[i].held.tools
        /\ agentHeap[served[i].agent].sop.model = served[i].held.model

\* the agent configuration that the settings given to the constructor of
\* orchestrator o prescribe for definition sop
ConfiguredFor(o, sop) ==
    newAgentConfig(sop,
                   [agentCache |-> EmptyCache,
                    currentDefaultModelSpec |->
                        instances[o].config.defaultModel,
                    currentDefaultProvider |->
                        instances[o].config.defaultProvider,
                    printerEnabled |->
                        instances[o].config.logLevel = "debug",
                    toolRegistry |-> instances[o].config.tools],
                   TRUE).config

\* C35: an agent instance created while serving a request of orchestrator A
\* is built with the tool registry, default model, default provider and
\* console-printing setting (enabled exactly when A's logLevel is debug)
\* given to A's constructor, even when another orchestrator B with other
\* settings was constructed in between.
C35_AgentBuiltWithOwnSettings ==
    \A id \in 1..Len(agentHeap) :
        LET a == agentHeap[id]
            c == ConfiguredFor(a.for, a.sop)
        IN /\ a.tools = c.tools
           /\ a.model = c.model
           /\ a.provider = c.provider
           /\ a.printer = c.printer

\* the capability calls that ended, by raising or by returning
Ended == {i \in 1..Len(served) : served[i].st \in {"raised", "returned"}}

\* C36: every error raised while the wrapper serves a capability call, a
\* failure to construct the agent before delegation included, is handled
\* by the error mode: returned as the structured failure payload in
\* continue mode, raised as AgentInvocationError naming the capability in
\* fail-fast mode, and never leaving the wrapper in another form.
C36_ErrorsFollowErrorMode ==
    \A i \in Ended :
        /\ served[i].st = "raised" =>
              /\ served[i].mode = "fail-fast"
              /\ served[i].error.kind = "AgentInvocationError"
              /\ served[i].error.agentName = served[i].agentName
        /\ served[i].st = "returned" /\ served[i].result.json =>
              /\ served[i].mode = "continue"
              /\ ~served[i].result.success
              /\ served[i].result.agentName = served[i].agentName

\* the .md files of the scanned directory that declare the orchestrator type
\* and fail to load
UnloadableCoordinators ==
    {i \in FailingFiles :
        mdFiles(directory.files)[i].content.type = "orchestrator"}

\* the scanned directory without the files that fail to load
WithoutFailingFiles ==
    [directory EXCEPT
        !.files = SelectSeq(directory.files,
                            LAMBDA f : f.ext # ".md" \/ loadSOP(f).err = "")]

====
